---- MODULE Spec2Model ----
(***************************************************************************)
(* A state-machine model of the XArray radix tree: nodes with 64 slots     *)
(* and three mark words, reference-counted sharing between trees, the      *)
(* read cursor (Cursor), the write cursor (CursorMut) with its             *)
(* copy-on-write descent, and the tree-level operations built on them.     *)
(*                                                                         *)
(* Encoding.  The heap maps node ids to node records; `rc` is the strong   *)
(* count of the Arc that owns the node.  A slot array is a function from   *)
(* the offsets that hold a non-empty entry to that entry (every other      *)
(* offset reads as EMPTY).  A 64-bit mark word is the set of the offsets   *)
(* whose bit is set.  Option<I> is 0 for None and the item otherwise.      *)
(***************************************************************************)
EXTENDS Integers, Sequences, FiniteSets, TLC

BITS_PER_LAYER == 6
SLOT_SIZE == 2 ^ BITS_PER_LAYER
SLOT_MASK == SLOT_SIZE - 1
NUM_MARKS == 3

\* Items are 1..MaxItem (an item is identified by its pointer).
MaxItem == 2
\* A cursor may be advanced by next() up to MaxNext keys past a start key.
MaxNext == 2
\* A thread makes up to MaxCalls calls on its tree.
MaxCalls == 1

Items == 1..MaxItem
Marks == 0..(NUM_MARKS - 1)
NoItem == 0

Min(S) == CHOOSE x \in S : \A y \in S : x <= y
Last(s) == s[Len(s)]
Front(s) == SubSeq(s, 1, Len(s) - 1)

(***************************************************************************)
(* XEntry: the tagged slot value.                                          *)
(***************************************************************************)
EMPTY == [ty |-> "Empty", val |-> 0]
from_item(item) == [ty |-> "Item", val |-> item]
node_entry(id) == [ty |-> "Node", val |-> id]
is_null(e) == e.ty = "Empty"
is_item(e) == e.ty = "Item"
is_node(e) == e.ty = "Node"
into_item(e) == IF is_item(e) THEN e.val ELSE NoItem

(***************************************************************************)
(* Mark: one bitmap over the slots of a node.                              *)
(***************************************************************************)
Mark_EMPTY == {}
Mark_set(w, offset) == w \cup {offset}
Mark_unset(w, offset) == w \ {offset}
Mark_clear(w) == {}
Mark_is_marked(w, offset) == offset \in w
Mark_is_clear(w) == w = {}
\* `1 << offset as u64`, for an offset below 64: bit 0 moved up by offset.
Mark_bit(offset) == {b + offset : b \in {0}} \cap (0..(SLOT_SIZE - 1))
\* Mutant of Mark_update: the mask of the other bits is not complemented,
\* `new_inner &= 1 << offset`.
Mark_update_mask(w, offset, set) ==
    LET changed(new_inner) == [inner |-> new_inner, changed |-> new_inner # w]
    IN changed(IF set THEN w \cup Mark_bit(offset)
               ELSE w \cap Mark_bit(offset))

\* Mark::update: the new word and whether it differs from the old one.
Mark_update(w, offset, set) ==
    LET changed(new_inner) == [inner |-> new_inner, changed |-> new_inner # w]
    IN changed(IF set THEN w \cup Mark_bit(offset)
               ELSE w \cap ((0..(SLOT_SIZE - 1)) \ Mark_bit(offset)))

(***************************************************************************)
(* Height of a node (a leaf has height 1) and the index arithmetic.        *)
(***************************************************************************)
\* An index is a u64.  It is represented by the integer congruent to it
\* modulo 2^64 that is nearest to 0, so the largest u64 is -1 and adding 1
\* to it gives 0, as the wrapping addition of the machine does; the order of
\* u64 puts the negative representatives above the others.
U64_MAX == -1
u64_lt(a, b) ==
    IF (a < 0) = (b < 0) THEN a < b ELSE b < 0
\* index += 1 overflows.
add_one_overflows(index) == index = U64_MAX

layer_shift(height) == (height - 1) * BITS_PER_LAYER
\* Mutant of layer_offset: the index is not shifted by the node's height.
layer_offset_unshifted(height, index) == index % SLOT_SIZE
layer_offset(height, index) == (index \div (2 ^ layer_shift(height))) % SLOT_SIZE
height_max_index(height) == (SLOT_SIZE * (2 ^ layer_shift(height))) - 1

(***************************************************************************)
(* XNode and the heap.                                                     *)
(***************************************************************************)
NoSlots == [o \in {} |-> EMPTY]
XNode_new(height, offset) ==
    [height |-> height, offset_in_parent |-> offset, slots |-> NoSlots,
     marks |-> [m \in Marks |-> Mark_EMPTY], rc |-> 1]

is_leaf(H, n) == H[n].height = 1
entry_offset(H, n, index) == layer_offset(H[n].height, index)
Slot(H, n, offset) ==
    IF offset \in DOMAIN H[n].slots THEN H[n].slots[offset] ELSE EMPTY
PutSlot(slots, offset, e) ==
    IF is_null(e)
    THEN [o \in DOMAIN slots \ {offset} |-> slots[o]]
    ELSE [o \in DOMAIN slots \cup {offset} |-> IF o = offset THEN e ELSE slots[o]]

\* XNodeInner::set_entry: replace the slot (the old entry is the caller's).
set_entry(H, n, offset, e) == [H EXCEPT ![n].slots = PutSlot(@, offset, e)]
\* Mutant of node_set_mark: the bit is set in every mark word.
node_set_mark_every(H, n, offset, m) ==
    [H EXCEPT ![n].marks = [k \in Marks |-> Mark_set(@[k], offset)]]
node_set_mark(H, n, offset, m) == [H EXCEPT ![n].marks[m] = Mark_set(@, offset)]
node_unset_mark(H, n, offset, m) == [H EXCEPT ![n].marks[m] = Mark_unset(@, offset)]
\* Mutant of node_clear_mark: every mark word of the node is cleared.
node_clear_mark_every(H, n, m) ==
    [H EXCEPT ![n].marks = [k \in Marks |-> Mark_clear(@[k])]]
node_clear_mark(H, n, m) == [H EXCEPT ![n].marks[m] = Mark_clear(@)]
node_is_marked(H, n, offset, m) == Mark_is_marked(H[n].marks[m], offset)
node_is_mark_clear(H, n, m) == Mark_is_clear(H[n].marks[m])

node_strong_count(H, e) == IF is_node(e) THEN H[e.val].rc ELSE 0

AllocId(H) == Min((1..(Cardinality(DOMAIN H) + 1)) \ DOMAIN H)
\* Mutant of alloc_node: the new node is given offset_in_parent 0.
alloc_node_at_zero(H, height, offset) ==
    LET at(id) == [H |-> [x \in DOMAIN H \cup {id} |->
                            IF x = id THEN XNode_new(height, 0) ELSE H[x]],
                   e |-> node_entry(id)]
    IN at(AllocId(H))

\* XEntry::from_node(XNode::new(height, offset)): a fresh Arc, strong count 1.
alloc_node(H, height, offset) ==
    LET at(id) == [H |-> [x \in DOMAIN H \cup {id} |->
                            IF x = id THEN XNode_new(height, offset) ELSE H[x]],
                   e |-> node_entry(id)]
    IN at(AllocId(H))

ChildIds(H, n) ==
    {H[n].slots[o].val : o \in {p \in DOMAIN H[n].slots : is_node(H[n].slots[p])}}

\* Drop for XEntry: an item is released; a node entry gives up one strong
\* count, and the node whose count reaches zero drops its slots in turn.
\* Mutant of drop_node: the node whose count reaches zero is released
\* without dropping its slots.
drop_node_shallow(H, id) ==
    IF H[id].rc > 1 THEN [H EXCEPT ![id].rc = @ - 1]
    ELSE [x \in DOMAIN H \ {id} |-> H[x]]

RECURSIVE drop_node(_, _)
RECURSIVE drop_nodes(_, _)
drop_node(H, id) ==
    IF H[id].rc > 1
    THEN [H EXCEPT ![id].rc = @ - 1]
    ELSE drop_nodes([x \in DOMAIN H \ {id} |-> H[x]], ChildIds(H, id))
drop_nodes(H, S) ==
    IF S = {} THEN H
    ELSE LET first(id) == drop_nodes(drop_node(H, id), S \ {id}) IN first(Min(S))
drop_entry(H, e) == IF is_node(e) THEN drop_node(H, e.val) ELSE H

\* Mutant of clone_slots: the strong counts of the children are not raised.
clone_slots_uncounted(H, n) == H

\* Clone for XEntry applied to every slot of node n: node entries share
\* the child (strong count + 1), items are cloned.
clone_slots(H, n) ==
    LET shared(S) == [x \in DOMAIN H |-> IF x \in S THEN [H[x] EXCEPT !.rc = @ + 1] ELSE H[x]]
    IN shared(ChildIds(H, n))

\* Mutant of deep_clone_node_entry: the entry is cloned, not the node.
deep_clone_node_entry_alias(H, e) ==
    [H |-> [H EXCEPT ![e.val].rc = @ + 1], e |-> e]

deep_clone_node_entry(H, e) ==
    LET at(id, H1) == [H |-> [x \in DOMAIN H1 \cup {id} |->
                                IF x = id THEN [H[e.val] EXCEPT !.rc = 1] ELSE H1[x]],
                       e |-> node_entry(id)]
    IN at(AllocId(H), clone_slots(H, e.val))

\* Mutant of copy_if_shared: a shared node is never copied.
copy_if_shared_never(H, e) == [some |-> FALSE, H |-> H, e |-> EMPTY]

copy_if_shared(H, e) ==
    IF is_node(e) /\ node_strong_count(H, e) > 1
    THEN [some |-> TRUE] @@ deep_clone_node_entry(H, e)
    ELSE [some |-> FALSE, H |-> H, e |-> EMPTY]

\* Mutant of ref_node_entry: a shared child is handed out as it is.
ref_node_entry_shared(H, is_exclusive, n, offset) == [H |-> H, e |-> Slot(H, n, offset)]

\* XNode<ReadWrite>::ref_node_entry(is_exclusive, offset): the slot entry,
\* after replacing a shared child by a private copy when is_exclusive.
ref_node_entry(H, is_exclusive, n, offset) ==
    LET replaced(e, cp) ==
            IF is_exclusive /\ cp.some
            THEN [H |-> drop_entry(set_entry(cp.H, n, offset, cp.e), e), e |-> cp.e]
            ELSE [H |-> H, e |-> e]
        of_entry(e) == replaced(e, copy_if_shared(H, e))
    IN of_entry(Slot(H, n, offset))

\* XNode::try_clone: a new node, strong count 1, with the height, the
\* offset_in_parent and the mark words of node n and a clone of each of its
\* slot entries (a node entry shares the child, an item is cloned).
XNode_try_clone(H, n) ==
    LET at(id, H1) == [H |-> [x \in DOMAIN H1 \cup {id} |->
                                IF x = id
                                THEN [rc |-> 1, height |-> H[n].height,
                                      offset_in_parent |-> H[n].offset_in_parent,
                                      slots |-> H[n].slots, marks |-> H[n].marks]
                                ELSE H1[x]],
                       e |-> node_entry(id)]
    IN at(AllocId(H), clone_slots(H, n))

\* Mutant of as_node_mut_or_cow: the entry that the copy replaces is
\* forgotten, not dropped.
as_node_mut_or_cow_forget(H, e) ==
    IF node_strong_count(H, e) = 0 THEN [some |-> FALSE, H |-> H, e |-> e]
    ELSE IF node_strong_count(H, e) = 1 THEN [some |-> TRUE, H |-> H, e |-> e]
    ELSE [some |-> TRUE] @@ XNode_try_clone(H, e.val)

\* XEntry::as_node_mut_or_cow on the slot that holds e: whether a node is
\* returned, the heap and the entry that the slot holds afterwards.  The
\* assignment `*self = ...` drops the entry that the slot held.
as_node_mut_or_cow(H, e) ==
    IF node_strong_count(H, e) = 0 THEN [some |-> FALSE, H |-> H, e |-> e]
    ELSE IF node_strong_count(H, e) = 1 THEN [some |-> TRUE, H |-> H, e |-> e]
    ELSE LET assigned(cp) == [some |-> TRUE, H |-> drop_entry(cp.H, e), e |-> cp.e]
         IN assigned(XNode_try_clone(H, e.val))

(***************************************************************************)
(* XArray: head entry and the index range it covers.                       *)
(***************************************************************************)
\* Mutant of xa_max_index: the range of a head one level higher.
xa_max_index_wide(H, head) ==
    IF is_node(head) THEN height_max_index(H[head.val].height + 1) ELSE 0
xa_max_index(H, head) ==
    IF is_node(head) THEN height_max_index(H[head.val].height) ELSE 0

(***************************************************************************)
(* Cursor state: Inactive (at = FALSE) or AtNode {node, operation_offset}. *)
(* The same record serves Cursor and CursorMut (is_exclusive is FALSE in   *)
(* a read cursor).                                                         *)
(***************************************************************************)
Cursor_default(index) ==
    [index |-> index, at |-> FALSE, node |-> 0, off |-> 0, anc |-> << >>,
     excl |-> FALSE]
arrive_node(c, n, offset) == [c EXCEPT !.at = TRUE, !.node = n, !.off = offset]
is_arrived(c) == c.at

\* ---- Cursor (read only) ------------------------------------------------
\* Mutant of Cursor_init: the ancestors are kept.
Cursor_init_keeps_ancestors(c) == [c EXCEPT !.at = FALSE, !.node = 0, !.off = 0]
Cursor_init(c) == [c EXCEPT !.at = FALSE, !.node = 0, !.off = 0, !.anc = << >>]
Cursor_ref_operated_entry(H, c) == IF c.at THEN Slot(H, c.node, c.off) ELSE EMPTY
Cursor_move_to(H, c, n) == arrive_node(c, n, entry_offset(H, n, c.index))

\* The descent loop shared by traverse_to_target and next: follow node
\* entries down to a leaf, give up (Inactive) on a non-node entry.
RECURSIVE Cursor_descend(_, _)
Cursor_descend(H, c) ==
    IF is_leaf(H, c.node) THEN c
    ELSE LET via(e) ==
                 IF ~is_node(e) THEN Cursor_init(c)
                 ELSE Cursor_descend(H,
                          Cursor_move_to(H, [c EXCEPT !.anc = Append(@, c.node)], e.val))
         IN via(Cursor_ref_operated_entry(H, c))

Cursor_traverse_to_target(H, head, c) ==
    IF is_arrived(c) THEN c
    ELSE LET within(max_index) ==
                 IF u64_lt(max_index, c.index) \/ max_index = 0 THEN c
                 ELSE Cursor_descend(H, Cursor_move_to(H, c, head.val))
         IN within(xa_max_index(H, head))

Cursor_new(H, head, index) == Cursor_traverse_to_target(H, head, Cursor_default(index))

\* Mutant of Cursor_reset_to: the position and the ancestors are kept.
Cursor_reset_to_no_init(H, head, c, index) ==
    Cursor_traverse_to_target(H, head, [c EXCEPT !.index = index])

Cursor_reset_to(H, head, c, index) ==
    Cursor_traverse_to_target(H, head, [Cursor_init(c) EXCEPT !.index = index])

\* The loop of next() that climbs while the offset ran off the node.
RECURSIVE next_climb(_, _, _, _)
next_climb(H, n, offset, anc) ==
    IF offset = SLOT_SIZE
    THEN IF anc # << >>
         THEN next_climb(H, Last(anc), H[n].offset_in_parent + 1, Front(anc))
         ELSE [node |-> n, off |-> 0, anc |-> anc]
    ELSE [node |-> n, off |-> offset, anc |-> anc]

Cursor_next(H, head, c) ==
    LET from(c1, up) == Cursor_descend(H, [arrive_node(c1, up.node, up.off) EXCEPT !.anc = up.anc])
        step(c1) ==
            IF ~is_arrived(c1) THEN c1
            ELSE IF u64_lt(xa_max_index(H, head), c1.index) THEN Cursor_init(c1)
            ELSE from(c1, next_climb(H, c1.node, c1.off + 1, c1.anc))
    IN step([c EXCEPT !.index = @ + 1])

Cursor_is_marked(H, c, m) == IF c.at THEN node_is_marked(H, c.node, c.off, m) ELSE FALSE

Cursor_load(H, c) ==
    LET item_of(e) == IF c.at /\ is_item(e) THEN e.val ELSE NoItem
    IN item_of(Cursor_ref_operated_entry(H, c))

\* ---- XArray read operations --------------------------------------------
XArray_load(H, head, index) == Cursor_load(H, Cursor_new(H, head, index))
XArray_is_marked_at(H, head, index, m) == Cursor_is_marked(H, Cursor_new(H, head, index), m)

\* Range::next iterated until it returns None: the sequence of yields.
RECURSIVE Range_collect(_, _, _, _)
Range_collect(H, head, c, end) ==
    IF c.index >= end THEN << >>
    ELSE LET yield(item, rest) ==
                 IF item = NoItem THEN rest ELSE << <<c.index, item>> >> \o rest
         IN yield(Cursor_load(H, c), Range_collect(H, head, Cursor_next(H, head, c), end))
XArray_range(H, head, start, end) == Range_collect(H, head, Cursor_new(H, head, start), end)

(***************************************************************************)
(* CursorMut.  Its operations act on a context x = [H, head, c]: the heap, *)
(* the head entry of the cursor's XArray and the cursor itself.  An        *)
(* operation that also yields an entry returns the context extended with   *)
(* the field e.                                                            *)
(***************************************************************************)
Ctx(H, head, c) == [H |-> H, head |-> head, c |-> c]
CtxPart(r) == Ctx(r.H, r.head, r.c)

CursorMut_init(c) ==
    [c EXCEPT !.at = FALSE, !.node = 0, !.off = 0, !.anc = << >>, !.excl = FALSE]

\* XArray::head_mut(true) / ensure_head_exclusive: a shared head node is
\* replaced by a private copy (set_head drops the old head entry).
ensure_head_exclusive(x) ==
    LET with(cp) ==
            IF cp.some
            THEN [x EXCEPT !.H = drop_entry(cp.H, x.head), !.head = cp.e]
            ELSE x
    IN with(copy_if_shared(x.H, x.head))

CursorMut_ref_operated_entry(x) ==
    IF x.c.at
    THEN LET with(r) == [H |-> r.H, head |-> x.head, c |-> x.c, e |-> r.e]
         IN with(ref_node_entry(x.H, x.c.excl, x.c.node, x.c.off))
    ELSE [H |-> x.H, head |-> x.head, c |-> x.c, e |-> EMPTY]

CursorMut_move_to(x, n) ==
    CursorMut_ref_operated_entry(
        [x EXCEPT !.c = arrive_node(x.c, n, entry_offset(x.H, n, x.c.index))])

push_ancestor(x) == [x EXCEPT !.c.anc = Append(@, x.c.node)]

\* The descent loop of CursorMut::traverse_to_target and CursorMut::next.
RECURSIVE CursorMut_descend(_)
CursorMut_descend(x) ==
    IF is_leaf(x.H, x.c.node) THEN x
    ELSE LET via(r) ==
                 IF ~is_node(r.e) THEN [r EXCEPT !.c = CursorMut_init(r.c)]
                 ELSE CursorMut_descend(CursorMut_move_to(r, r.e.val))
         IN via(CursorMut_ref_operated_entry(push_ancestor(x)))

CursorMut_traverse_to_target(x) ==
    IF is_arrived(x.c) THEN CursorMut_ref_operated_entry(x)
    ELSE LET from(x1) ==
                 CursorMut_ref_operated_entry(
                     CursorMut_descend(CursorMut_move_to(x1, x1.head.val)))
             within(max_index) ==
                 IF u64_lt(max_index, x.c.index) \/ max_index = 0 THEN x @@ [e |-> EMPTY]
                 ELSE from(IF x.c.excl THEN ensure_head_exclusive(x) ELSE x)
         IN within(xa_max_index(x.H, x.head))

\* Mutant of CursorMut_new: the cursor is exclusive from the start.
CursorMut_new_exclusive(H, head, index) ==
    CtxPart(CursorMut_traverse_to_target(
                Ctx(H, head, [Cursor_default(index) EXCEPT !.excl = TRUE])))

CursorMut_new(H, head, index) ==
    CursorMut_traverse_to_target(Ctx(H, head, Cursor_default(index)))

CursorMut_reset_to(x, index) ==
    CursorMut_traverse_to_target(
        [x EXCEPT !.c = [CursorMut_init(x.c) EXCEPT !.index = index]])

CursorMut_load(x) ==
    LET item_of(e) == IF x.c.at /\ is_item(e) THEN e.val ELSE NoItem
    IN item_of(CursorMut_ref_operated_entry(x).e)

\* Mutant of CursorMut_next: the index advances, the position does not.
CursorMut_next_in_place(x) == [x EXCEPT !.c.index = @ + 1, !.c.excl = FALSE]

CursorMut_next(x) ==
    LET from(x1, up) ==
            CtxPart(CursorMut_descend(
                [x1 EXCEPT !.c = [arrive_node(x1.c, up.node, up.off) EXCEPT !.anc = up.anc]]))
        step(x1) ==
            IF ~is_arrived(x1.c) THEN x1
            ELSE IF u64_lt(xa_max_index(x1.H, x1.head), x1.c.index)
                 THEN [x1 EXCEPT !.c = CursorMut_init(x1.c)]
            ELSE from(x1, next_climb(x1.H, x1.c.node, x1.c.off + 1, x1.c.anc))
    IN step([x EXCEPT !.c.index = @ + 1, !.c.excl = FALSE])

\* Mutant of fit_height: the first head is a leaf whatever the index.
fit_height_leaf(h, index) == h

\* The least height whose max_index covers index, searched upwards from h.
RECURSIVE fit_height(_, _)
fit_height(h, index) ==
    IF index > height_max_index(h) THEN fit_height(h + 1, index) ELSE h

\* Mutant of expand_loop: the new heads get no mark.
RECURSIVE expand_loop_unmarked(_)
expand_loop_unmarked(x) ==
    LET on_top(x1, a) == [x1 EXCEPT !.H = set_entry(a.H, a.e.val, 0, x1.head),
                                    !.head = a.e]
        grow(x1, head_height) ==
            IF height_max_index(head_height) > x1.c.index THEN x1
            ELSE expand_loop_unmarked(on_top(x1, alloc_node(x1.H, head_height + 1, 0)))
        with(x1) == grow(x1, x1.H[x1.head.val].height)
    IN with(IF x.c.excl THEN ensure_head_exclusive(x) ELSE x)

\* The loop of expand_height on a non-empty XArray: put new heads on top
\* until the head covers the index.
RECURSIVE expand_loop(_)
expand_loop(x) ==
    LET on_top(x1, a, marked) ==
            [x1 EXCEPT !.H = set_entry(
                                 [a.H EXCEPT ![a.e.val].marks =
                                     [m \in Marks |-> IF m \in marked THEN Mark_set(@[m], 0)
                                                      ELSE @[m]]],
                                 a.e.val, 0, x1.head),
                       !.head = a.e]
        grow(x1, head_height) ==
            IF height_max_index(head_height) > x1.c.index THEN x1
            ELSE expand_loop(on_top(x1, alloc_node(x1.H, head_height + 1, 0),
                                    {m \in Marks : ~node_is_mark_clear(x1.H, x1.head.val, m)}))
        with(x1) == grow(x1, x1.H[x1.head.val].height)
    IN with(IF x.c.excl THEN ensure_head_exclusive(x) ELSE x)

expand_height(x) ==
    IF is_null(x.head)
    THEN LET with(a) == [x EXCEPT !.H = a.H, !.head = a.e]
         IN with(alloc_node(x.H, fit_height(1, x.c.index), 0))
    ELSE expand_loop(x)

\* The descent loop of expand_and_traverse_to_target: as CursorMut_descend,
\* but an empty slot on the way gets a new node.
RECURSIVE expand_descend(_)
expand_descend(x) ==
    IF is_leaf(x.H, x.c.node) THEN x
    ELSE LET enter(r, r2) ==
                 expand_descend(CursorMut_move_to(Ctx(r2.H, r.head, r.c), r2.e.val))
             fill(r, a) ==
                 enter(r, ref_node_entry(
                              drop_entry(set_entry(a.H, r.c.node, r.c.off, a.e), r.e),
                              r.c.excl, r.c.node, r.c.off))
             via(r) ==
                 IF ~is_node(r.e)
                 THEN fill(r, alloc_node(r.H, r.H[r.c.node].height - 1, r.c.off))
                 ELSE expand_descend(CursorMut_move_to(r, r.e.val))
         IN via(CursorMut_ref_operated_entry(push_ancestor(x)))

expand_and_traverse_to_target(x) ==
    IF is_arrived(x.c) THEN CursorMut_ref_operated_entry(x)
    ELSE LET from(x2) ==
                 CursorMut_ref_operated_entry(
                     expand_descend(CursorMut_move_to(x2, x2.head.val)))
             with(x1) == from(IF x1.c.excl THEN ensure_head_exclusive(x1) ELSE x1)
         IN with(expand_height(x))

\* The first loop of ensure_exclusive_before_modify: keep the ancestors
\* above the first shared node of the path, and stand on its parent.
RECURSIVE exclusive_prefix(_, _, _)
exclusive_prefix(x, i, kept) ==
    IF i > Len(x.c.anc) THEN [c |-> [x.c EXCEPT !.anc = kept]]
    ELSE LET at(ancestor, offset) ==
                 IF node_strong_count(x.H, ref_node_entry(x.H, FALSE, ancestor, offset).e) > 1
                 THEN [c |-> [arrive_node(x.c, ancestor, offset) EXCEPT !.anc = kept]]
                 ELSE exclusive_prefix(x, i + 1, Append(kept, ancestor))
         IN at(x.c.anc[i], entry_offset(x.H, x.c.anc[i], x.c.index))

\* The second loop: descend exclusively from there to the leaf.
RECURSIVE exclusive_descend(_)
exclusive_descend(x) ==
    IF is_leaf(x.H, x.c.node) THEN x
    ELSE LET via(r) == exclusive_descend(CursorMut_move_to(push_ancestor(r), r.e.val))
         IN via(CursorMut_ref_operated_entry(x))

\* Mutant of ensure_exclusive_before_modify: the cursor is declared exclusive
\* where it stands, no node is copied.
ensure_exclusive_before_modify_flag(x) == [x EXCEPT !.c.excl = TRUE]

ensure_exclusive_before_modify(x) ==
    IF x.c.excl THEN x
    ELSE IF ~is_arrived(x.c) THEN [x EXCEPT !.c.excl = TRUE]
    ELSE IF node_strong_count(x.H, x.head) > 1
         THEN CtxPart(CursorMut_traverse_to_target(
                          [x EXCEPT !.c = [CursorMut_init(x.c) EXCEPT !.excl = TRUE]]))
    ELSE LET from(c1) == CtxPart(exclusive_descend([x EXCEPT !.c = [c1 EXCEPT !.excl = TRUE]]))
         IN from(exclusive_prefix(x, 1, << >>).c)

\* Each of the following returns the context after the call with the
\* call's result in the field ret.
Returning(r, H, res) == [H |-> H, head |-> r.head, c |-> r.c, ret |-> res]

\* Mutant of CursorMut_store: the stored entry is returned, not the old one.
CursorMut_store_returns_new(x, item) ==
    LET put(r) == Returning(r, set_entry(r.H, r.c.node, r.c.off, from_item(item)), item)
    IN put(expand_and_traverse_to_target(ensure_exclusive_before_modify(x)))

\* Mutant of CursorMut_store: an entry identical to the one in the slot is
\* dropped, nothing is returned.
CursorMut_store_drops_same(x, item) ==
    LET put(r, stored_entry) ==
            IF stored_entry = r.e
            THEN Returning(r, r.H, NoItem)
            ELSE Returning(r, set_entry(r.H, r.c.node, r.c.off, stored_entry), into_item(r.e))
    IN put(expand_and_traverse_to_target(ensure_exclusive_before_modify(x)), from_item(item))

CursorMut_store(x, item) ==
    LET put(r, stored_entry) ==
            IF stored_entry = r.e
            THEN Returning(r, r.H, into_item(stored_entry))
            ELSE Returning(r, set_entry(r.H, r.c.node, r.c.off, stored_entry), into_item(r.e))
    IN put(expand_and_traverse_to_target(ensure_exclusive_before_modify(x)), from_item(item))

\* Mutant of CursorMut_remove: the old item is returned but the slot is kept.
CursorMut_remove_keeps_slot(x) ==
    LET take(x1) ==
            IF x1.c.at
            THEN Returning(x1, x1.H, into_item(Slot(x1.H, x1.c.node, x1.c.off)))
            ELSE Returning(x1, x1.H, NoItem)
    IN take(ensure_exclusive_before_modify(x))

\* Mutant of CursorMut_remove: a leaf that the remove leaves without items
\* is released (from its parent, or as the head of the tree).
CursorMut_remove_prunes(x) ==
    LET pruned(x1, H2, leaf) ==
            IF H2[leaf].slots # NoSlots THEN [H |-> H2, head |-> x1.head, c |-> x1.c]
            ELSE IF x1.c.anc = << >>
                 THEN [H |-> drop_entry(H2, x1.head), head |-> EMPTY,
                       c |-> CursorMut_init(x1.c)]
            ELSE [H |-> drop_entry(set_entry(H2, Last(x1.c.anc),
                                             H2[leaf].offset_in_parent, EMPTY),
                                   node_entry(leaf)),
                  head |-> x1.head, c |-> CursorMut_init(x1.c)]
        take(x1) ==
            IF x1.c.at
            THEN pruned(x1, set_entry(x1.H, x1.c.node, x1.c.off, EMPTY), x1.c.node)
                     @@ [ret |-> into_item(Slot(x1.H, x1.c.node, x1.c.off))]
            ELSE Returning(x1, x1.H, NoItem)
    IN take(ensure_exclusive_before_modify(x))

CursorMut_remove(x) ==
    LET take(x1) ==
            IF x1.c.at
            THEN Returning(x1, set_entry(x1.H, x1.c.node, x1.c.off, EMPTY),
                           into_item(Slot(x1.H, x1.c.node, x1.c.off)))
            ELSE Returning(x1, x1.H, NoItem)
    IN take(ensure_exclusive_before_modify(x))

\* Mutant of set_mark_up: the ancestors are left as they are.
set_mark_up_none(H, anc, i, offset_in_parent, m) == H

\* The walk of set_mark over the ancestors, deepest first.
RECURSIVE set_mark_up(_, _, _, _, _)
set_mark_up(H, anc, i, offset_in_parent, m) ==
    IF i = 0 THEN H
    ELSE IF node_is_marked(H, anc[i], offset_in_parent, m) THEN H
    ELSE set_mark_up(node_set_mark(H, anc[i], offset_in_parent, m), anc, i - 1,
                     H[anc[i]].offset_in_parent, m)

\* Mutant of CursorMut_set_mark: the slot is marked whatever it holds.
CursorMut_set_mark_unchecked(x, m) ==
    LET mark(r) ==
            Returning(r, set_mark_up(node_set_mark(r.H, r.c.node, r.c.off, m),
                                     r.c.anc, Len(r.c.anc),
                                     r.H[r.c.node].offset_in_parent, m), "Ok")
        at(x1) == IF x1.c.at THEN mark(CursorMut_ref_operated_entry(x1))
                  ELSE Returning(x1, x1.H, "Err")
    IN at(ensure_exclusive_before_modify(x))

CursorMut_set_mark(x, m) ==
    LET mark(r) ==
            IF is_null(r.e) THEN Returning(r, r.H, "Err")
            ELSE Returning(r, set_mark_up(node_set_mark(r.H, r.c.node, r.c.off, m),
                                          r.c.anc, Len(r.c.anc),
                                          r.H[r.c.node].offset_in_parent, m), "Ok")
        at(x1) == IF x1.c.at THEN mark(CursorMut_ref_operated_entry(x1))
                  ELSE Returning(x1, x1.H, "Err")
    IN at(ensure_exclusive_before_modify(x))

\* Mutant of unset_mark_up: the ancestors are left as they are.
unset_mark_up_none(H, anc, i, offset_in_parent, m) == H

\* The walk of unset_mark over the ancestors, deepest first.
RECURSIVE unset_mark_up(_, _, _, _, _)
unset_mark_up(H, anc, i, offset_in_parent, m) ==
    IF i = 0 THEN H
    ELSE LET after(H1) ==
                 IF ~node_is_mark_clear(H1, anc[i], m) THEN H1
                 ELSE unset_mark_up(H1, anc, i - 1, H1[anc[i]].offset_in_parent, m)
         IN after(node_unset_mark(H, anc[i], offset_in_parent, m))

CursorMut_unset_mark(x, m) ==
    LET after(r, H1) ==
            Returning(r, IF node_is_mark_clear(H1, r.c.node, m)
                         THEN unset_mark_up(H1, r.c.anc, Len(r.c.anc),
                                            H1[r.c.node].offset_in_parent, m)
                         ELSE H1, "Ok")
        unmark(r) ==
            IF is_null(r.e) THEN Returning(r, r.H, "Err")
            ELSE after(r, node_unset_mark(r.H, r.c.node, r.c.off, m))
        at(x1) == IF x1.c.at THEN unmark(CursorMut_ref_operated_entry(x1))
                  ELSE Returning(x1, x1.H, "Err")
    IN at(ensure_exclusive_before_modify(x))

(***************************************************************************)
(* XArray write operations: each runs a CursorMut created for the call.    *)
(***************************************************************************)
XArray_store(H, head, index, item) == CursorMut_store(CursorMut_new(H, head, index), item)
XArray_remove(H, head, index) == CursorMut_remove(CursorMut_new(H, head, index))

\* load_with_mark: None (NoItem), or the item with the mark of its slot.
XArray_load_with_mark(H, head, index, m) ==
    LET with(c, item) == IF item # NoItem THEN <<item, Cursor_is_marked(H, c, m)>>
                         ELSE NoItem
        on(c) == with(c, Cursor_load(H, c))
    IN on(Cursor_new(H, head, index))

\* Mutant of XArray_store_with_mark: the mark is set before the store.
XArray_store_with_mark_first(H, head, index, item, m) ==
    LET stored(s) == s @@ [ok |-> TRUE]
        marked(r) == stored(CursorMut_store(CtxPart(r), item))
    IN marked(CursorMut_set_mark(CursorMut_new(H, head, index), m))

\* store_with_mark: store and set_mark through one write cursor; the field
\* ok says that the unwrap() of the result of set_mark does not panic.
XArray_store_with_mark(H, head, index, item, m) ==
    LET marked(s, r) == [r EXCEPT !.ret = s.ret] @@ [ok |-> r.ret = "Ok"]
        stored(s) == marked(s, CursorMut_set_mark(CtxPart(s), m))
    IN stored(CursorMut_store(CursorMut_new(H, head, index), item))

\* unset_mark_all: the offsets of one node in ascending order; a marked
\* child is made exclusive and queued.
\* Mutant of unset_mark_all_slots: no child is queued.
unset_mark_all_slots_none(H, n, offsets, handle_list) ==
    [H |-> H, handle_list |-> handle_list]

RECURSIVE unset_mark_all_slots(_, _, _, _)
unset_mark_all_slots(H, n, offsets, handle_list) ==
    IF offsets = {} THEN [H |-> H, handle_list |-> handle_list]
    ELSE LET queue(offset, r) ==
                 unset_mark_all_slots(r.H, n, offsets \ {offset},
                     IF is_node(r.e) THEN Append(handle_list, r.e.val) ELSE handle_list)
             at(offset) == queue(offset, ref_node_entry(H, TRUE, n, offset))
         IN at(Min(offsets))

RECURSIVE unset_mark_all_loop(_, _, _)
unset_mark_all_loop(H, handle_list, m) ==
    IF handle_list = << >> THEN H
    ELSE LET after(n, r) == unset_mark_all_loop(node_clear_mark(r.H, n, m), r.handle_list, m)
             at(n) == after(n, unset_mark_all_slots(H, n, H[n].marks[m], Tail(handle_list)))
         IN at(Head(handle_list))

XArray_unset_mark_all(H, head, m) ==
    LET from(x) ==
            [H |-> unset_mark_all_loop(x.H, IF is_node(x.head) THEN <<x.head.val>> ELSE << >>, m),
             head |-> x.head]
    IN from(ensure_head_exclusive(Ctx(H, head, Cursor_default(0))))

\* Mutant of XArray_set_mark: every flag is set.
XArray_set_mark_every(marks, m) == [k \in Marks |-> TRUE]

\* The tree-level marks of an XArray: one flag per mark.
XArray_set_mark(marks, m) == [marks EXCEPT ![m] = TRUE]
XArray_unset_mark(marks, m) == [marks EXCEPT ![m] = FALSE]
XArray_is_marked(marks, m) == marks[m]

\* Mutant of XArray_clone_heap: the strong count of the head is not raised.
XArray_clone_heap_uncounted(H, head) == H

\* Clone for XArray: the head entry is cloned (a node head is shared).
XArray_clone_heap(H, head) ==
    IF is_node(head) THEN [H EXCEPT ![head.val].rc = @ + 1] ELSE H

(***************************************************************************)
(* The state machine.                                                      *)
(***************************************************************************)
VARIABLES
    heap,   \* node id -> XNode
    xa,     \* tree -> [live, head, marks]: the XArrays
    cur,    \* tree -> the cursor that borrows the tree, if any
    amap,   \* tree -> key -> item: the partial map the tree stands for
    ret     \* the last call and its result
vars == <<heap, xa, cur, amap, ret>>

Trees == {"A", "B"}

\* Keys used by the tree-level calls: both ends of the first leaf, the
\* first key of the second leaf, the first key that needs height 3.
Keys == {0, SLOT_SIZE - 1, SLOT_SIZE, SLOT_SIZE * SLOT_SIZE}
\* Keys at which cursors are created or reset.
CursorKeys == {0, SLOT_SIZE - 1, 2 * SLOT_SIZE - 1}
CursorRange == UNION {k..(k + MaxNext) : k \in CursorKeys}
AllKeys == Keys \cup CursorRange

NoCursor == [kind |-> "none", c |-> Cursor_default(0)]
DeadTree == [live |-> FALSE, head |-> EMPTY, marks |-> [m \in Marks |-> FALSE]]
EmptyMap == [k \in AllKeys |-> NoItem]
NoRet == [op |-> "none", t |-> "A", res |-> 0]
Ret(op, t, k, v, res) == [op |-> op, t |-> t, res |-> res]

Init ==
    /\ heap = [x \in {} |-> XNode_new(1, 0)]
    /\ xa = [t \in Trees |-> IF t = "A" THEN [DeadTree EXCEPT !.live = TRUE] ELSE DeadTree]
    /\ cur = [t \in Trees |-> NoCursor]
    /\ amap = [t \in Trees |-> EmptyMap]
    /\ ret = NoRet

Live(t) == xa[t].live
Free(t) == xa[t].live /\ cur[t].kind = "none"
CtxOf(t) == Ctx(heap, xa[t].head, cur[t].c)

\* ---- node addresses ------------------------------------------------------
\* A node id stands for the address of the node.  No operation depends on
\* the value of an address, so every step renames the nodes to 1..n in the
\* order of a depth-first walk from the heads (slots in ascending order).
TreeOrder == <<"A", "B">>
SeqRange(s) == {s[i] : i \in 1..Len(s)}

RECURSIVE ChildSeq(_, _, _)
ChildSeq(H, n, offsets) ==
    IF offsets = {} THEN << >>
    ELSE LET first(o) ==
                 (IF is_node(H[n].slots[o]) THEN <<H[n].slots[o].val>> ELSE << >>)
                 \o ChildSeq(H, n, offsets \ {o})
         IN first(Min(offsets))

RECURSIVE VisitOrder(_, _, _)
VisitOrder(H, todo, seen) ==
    IF todo = << >> THEN seen
    ELSE IF Head(todo) \in SeqRange(seen)
         THEN VisitOrder(H, Tail(todo), seen)
         ELSE VisitOrder(H, ChildSeq(H, Head(todo), DOMAIN H[Head(todo)].slots)
                            \o Tail(todo),
                         Append(seen, Head(todo)))

RECURSIVE Ascending(_)
Ascending(S) ==
    IF S = {} THEN << >>
    ELSE LET first(n) == <<n>> \o Ascending(S \ {n}) IN first(Min(S))

HeadSeq(x) ==
    LET head_of(i) == IF is_node(x[TreeOrder[i]].head)
                      THEN <<x[TreeOrder[i]].head.val>> ELSE << >>
    IN head_of(1) \o head_of(2)

NodeOrder(H, x) ==
    LET all(reached) == reached \o Ascending(DOMAIN H \ SeqRange(reached))
    IN all(VisitOrder(H, HeadSeq(x), << >>))

RenameEntry(order, e) ==
    IF is_node(e)
    THEN node_entry(CHOOSE i \in 1..Len(order) : order[i] = e.val)
    ELSE e

Renamed(order, H, x, c) ==
    [heap |-> [i \in 1..Len(order) |->
                  [H[order[i]] EXCEPT
                      !.slots = [o \in DOMAIN @ |-> RenameEntry(order, @[o])]]],
     xa |-> [t \in Trees |-> [x[t] EXCEPT !.head = RenameEntry(order, @)]],
     cur |-> [t \in Trees |->
                 IF c[t].c.at
                 THEN [c[t] EXCEPT
                          !.c.node = RenameEntry(order, node_entry(@)).val,
                          !.c.anc = [i \in 1..Len(@) |->
                                        RenameEntry(order, node_entry(@[i])).val]]
                 ELSE c[t]]]

\* The next values of heap, xa and cur.
Install(H, x, c) ==
    LET set(n) == heap' = n.heap /\ xa' = n.xa /\ cur' = n.cur
    IN set(Renamed(NodeOrder(H, x), H, x, c))

\* ---- calls on an XArray that no cursor borrows --------------------------
XStore(t, k, item) ==
    /\ Free(t)
    /\ LET done(r) == /\ Install(r.H, [xa EXCEPT ![t].head = r.head], cur)
                      /\ ret' = Ret("store", t, k, item, r.ret)
       IN done(XArray_store(heap, xa[t].head, k, item))
    /\ amap' = [amap EXCEPT ![t][k] = item]

XRemove(t, k) ==
    /\ Free(t)
    /\ LET done(r) == /\ Install(r.H, [xa EXCEPT ![t].head = r.head], cur)
                      /\ ret' = Ret("remove", t, k, 0, r.ret)
       IN done(XArray_remove(heap, xa[t].head, k))
    /\ amap' = [amap EXCEPT ![t][k] = NoItem]

XStoreWithMark(t, k, item, m) ==
    /\ Free(t)
    /\ LET done(r) == /\ Install(r.H, [xa EXCEPT ![t].head = r.head], cur)
                      /\ ret' = IF r.ok THEN Ret("store_with_mark", t, k, item, r.ret)
                                ELSE Ret("panic", t, k, item, 0)
       IN done(XArray_store_with_mark(heap, xa[t].head, k, item, m))
    /\ amap' = [amap EXCEPT ![t][k] = item]

XUnsetMarkAll(t, m) ==
    /\ Free(t)
    /\ LET done(r) == Install(r.H, [xa EXCEPT ![t].head = r.head], cur)
       IN done(XArray_unset_mark_all(heap, xa[t].head, m))
    /\ ret' = Ret("unset_mark_all", t, 0, m, 0)
    /\ UNCHANGED amap

XSetTreeMark(t, m) ==
    /\ Free(t)
    /\ xa' = [xa EXCEPT ![t].marks = XArray_set_mark(@, m)]
    /\ ret' = Ret("set_tree_mark", t, 0, m, m)
    /\ UNCHANGED <<heap, cur, amap>>

XUnsetTreeMark(t, m) ==
    /\ Free(t)
    /\ xa' = [xa EXCEPT ![t].marks = XArray_unset_mark(@, m)]
    /\ ret' = Ret("unset_tree_mark", t, 0, m, m)
    /\ UNCHANGED <<heap, cur, amap>>

\* s.clone() into the unused tree variable t.
XClone(s, t) ==
    /\ Live(s) /\ cur[s].kind # "mut" /\ ~Live(t)
    /\ Install(XArray_clone_heap(heap, xa[s].head), [xa EXCEPT ![t] = xa[s]], cur)
    /\ amap' = [amap EXCEPT ![t] = amap[s]]
    /\ ret' = Ret("clone", t, 0, 0, 0)

XDrop(t) ==
    /\ Free(t)
    /\ Install(drop_entry(heap, xa[t].head), [xa EXCEPT ![t] = DeadTree], cur)
    /\ amap' = [amap EXCEPT ![t] = EmptyMap]
    /\ ret' = Ret("drop", t, 0, 0, 0)

\* ---- read cursor --------------------------------------------------------
\* next() of either cursor: `index += 1` on the largest u64 panics in a build
\* with overflow checks (the cursor is dropped by the unwinding) and wraps
\* to 0 in a build without them.
RCursorNew(t, k) ==
    /\ Free(t)
    /\ cur' = [cur EXCEPT ![t] = [kind |-> "read", c |-> Cursor_new(heap, xa[t].head, k)]]
    /\ ret' = Ret("cursor", t, k, 0, 0)
    /\ UNCHANGED <<heap, xa, amap>>

RCursorNext(t) ==
    /\ Live(t) /\ cur[t].kind = "read"
    /\ cur[t].c.index + 1 \in CursorRange
    /\ \E overflow_checks \in BOOLEAN :
          IF overflow_checks /\ add_one_overflows(cur[t].c.index)
          THEN /\ cur' = [cur EXCEPT ![t] = NoCursor]
               /\ ret' = Ret("panic", t, cur[t].c.index, 0, 0)
          ELSE /\ cur' = [cur EXCEPT ![t].c = Cursor_next(heap, xa[t].head, @)]
               /\ ret' = Ret("next", t, cur[t].c.index, 0, 0)
    /\ UNCHANGED <<heap, xa, amap>>

RCursorResetTo(t, k) ==
    /\ Live(t) /\ cur[t].kind = "read"
    /\ cur' = [cur EXCEPT ![t].c = Cursor_reset_to(heap, xa[t].head, @, k)]
    /\ ret' = Ret("reset_to", t, k, 0, 0)
    /\ UNCHANGED <<heap, xa, amap>>

\* ---- write cursor -------------------------------------------------------
Commit(t, r, kind) ==
    Install(r.H, [xa EXCEPT ![t].head = r.head],
            [cur EXCEPT ![t] = [kind |-> kind, c |-> r.c]])

WCursorNew(t, k) ==
    /\ Free(t)
    /\ Commit(t, CursorMut_new(heap, xa[t].head, k), "mut")
    /\ ret' = Ret("cursor_mut", t, k, 0, 0)
    /\ UNCHANGED amap

WCursorNext(t) ==
    /\ Live(t) /\ cur[t].kind = "mut"
    /\ cur[t].c.index + 1 \in CursorRange
    /\ \E overflow_checks \in BOOLEAN :
          IF overflow_checks /\ add_one_overflows(cur[t].c.index)
          THEN /\ cur' = [cur EXCEPT ![t] = NoCursor]
               /\ ret' = Ret("panic", t, cur[t].c.index, 0, 0)
               /\ UNCHANGED <<heap, xa>>
          ELSE /\ Commit(t, CursorMut_next(CtxOf(t)), "mut")
               /\ ret' = Ret("next", t, cur[t].c.index, 0, 0)
    /\ UNCHANGED amap

WCursorResetTo(t, k) ==
    /\ Live(t) /\ cur[t].kind = "mut"
    /\ Commit(t, CursorMut_reset_to(CtxOf(t), k), "mut")
    /\ ret' = Ret("reset_to", t, k, 0, 0)
    /\ UNCHANGED amap

WCursorStore(t, item) ==
    /\ Live(t) /\ cur[t].kind = "mut"
    /\ LET done(r) == /\ Commit(t, r, "mut")
                      /\ ret' = Ret("cursor_store", t, cur[t].c.index, item, r.ret)
       IN done(CursorMut_store(CtxOf(t), item))
    /\ amap' = [amap EXCEPT ![t][cur[t].c.index] = item]

WCursorRemove(t) ==
    /\ Live(t) /\ cur[t].kind = "mut"
    /\ LET done(r) == /\ Commit(t, r, "mut")
                      /\ ret' = Ret("cursor_remove", t, cur[t].c.index, 0, r.ret)
       IN done(CursorMut_remove(CtxOf(t)))
    /\ amap' = [amap EXCEPT ![t][cur[t].c.index] = NoItem]

WCursorSetMark(t, m) ==
    /\ Live(t) /\ cur[t].kind = "mut"
    /\ LET done(r) == /\ Commit(t, r, "mut")
                      /\ ret' = Ret("set_mark", t, cur[t].c.index, m, r.ret)
       IN done(CursorMut_set_mark(CtxOf(t), m))
    /\ UNCHANGED amap

WCursorUnsetMark(t, m) ==
    /\ Live(t) /\ cur[t].kind = "mut"
    /\ LET done(r) == /\ Commit(t, r, "mut")
                      /\ ret' = Ret("unset_mark", t, cur[t].c.index, m, r.ret)
       IN done(CursorMut_unset_mark(CtxOf(t), m))
    /\ UNCHANGED amap

\* Dropping a cursor of either kind ends the borrow.
CursorDrop(t) ==
    /\ Live(t) /\ cur[t].kind # "none"
    /\ cur' = [cur EXCEPT ![t] = NoCursor]
    /\ ret' = Ret("cursor_drop", t, 0, 0, 0)
    /\ UNCHANGED <<heap, xa, amap>>

\* ---- observations -------------------------------------------------------
Load(t, k) == XArray_load(heap, xa[t].head, k)
IsMarked(t, k, m) == XArray_is_marked_at(heap, xa[t].head, k, m)
Range(t, start, end) == XArray_range(heap, xa[t].head, start, end)

(***************************************************************************)
(* Specifications.                                                         *)
(***************************************************************************)
\* What the tree stands for at key k, and the keys at which it is observed:
\* every key the model touches, its successor, and the last key of height 2.
Model(t, k) == IF k \in AllKeys THEN amap[t][k] ELSE NoItem
ObsKeys == AllKeys \cup {k + 1 : k \in AllKeys} \cup {SLOT_SIZE * SLOT_SIZE - 1}
HeadHeight(t) == IF is_node(xa[t].head) THEN heap[xa[t].head.val].height ELSE 0

\* One tree, tree-level store and remove.
NextMap ==
    \/ \E k \in Keys, item \in Items : XStore("A", k, item)
    \/ \E k \in Keys : XRemove("A", k)
SpecMap == Init /\ [][NextMap]_vars

\* C1: after any sequence of store and remove on one tree, load(k) is the
\* item of the most recent store at k that no remove at k followed, and None
\* otherwise, for every key k (so a call at k changes no other key).
MapRefinement == \A k \in ObsKeys : Load("A", k) = Model("A", k)
\* C1 witness: a remove took an item out of a tree that has grown to height 3
\* and still holds an item in another leaf.
MapRefinementWitness ==
    /\ ret.op = "remove" /\ ret.res # NoItem
    /\ HeadHeight("A") = 3
    /\ Load("A", SLOT_SIZE * SLOT_SIZE) # NoItem
    /\ Load("A", 0) = NoItem /\ Model("A", SLOT_SIZE - 1) # NoItem

\* C7: store(k, v2) returns the item k holds (None when it holds none) and
\* afterwards load(k) is v2.
StoreReturnsOld ==
    \A k \in Keys, item \in Items :
        LET after(r) == /\ r.ret = Load("A", k)
                        /\ XArray_load(r.H, r.head, k) = item
        IN after(XArray_store(heap, xa["A"].head, k, item))
\* C7 witness: a store has just overwritten an item, and the key holds an item.
StoreReturnsOldWitness ==
    /\ ret.op = "store" /\ ret.res # NoItem
    /\ \E k \in Keys : Load("A", k) # NoItem /\ Load("A", k) # ret.res

\* C8: remove(k) returns the item k holds (None when it holds none, as on an
\* empty tree or after a remove) and afterwards load(k) is None.
RemoveReturnsOld ==
    \A k \in ObsKeys :
        LET after(r) == /\ r.ret = Load("A", k)
                        /\ XArray_load(r.H, r.head, k) = NoItem
        IN after(XArray_remove(heap, xa["A"].head, k))
\* C8 witness: a remove has just returned an item, the tree is not empty and
\* some key of it holds no item any more.
RemoveReturnsOldWitness ==
    /\ ret.op = "remove" /\ ret.res # NoItem
    /\ is_node(xa["A"].head)
    /\ \E k \in Keys : Load("A", k) = NoItem

(***************************************************************************)
(* One tree with read cursors.                                             *)
(***************************************************************************)
\* Keys of the tree-level calls here: the first key of the first leaf and
\* the first key of the third leaf (the second leaf is never allocated).
SparseKeys == {0, 2 * SLOT_SIZE}

NextCur ==
    \/ \E k \in SparseKeys, item \in Items : XStore("A", k, item)
    \/ \E k \in SparseKeys : XRemove("A", k)
    \/ \E k \in CursorKeys : RCursorNew("A", k)
    \/ RCursorNext("A")
    \/ \E k \in CursorKeys : RCursorResetTo("A", k)
    \/ CursorDrop("A")
SpecCur == Init /\ [][NextCur]_vars

\* The populated keys of [a, b) with their items, in ascending key order.
RECURSIVE Populated(_, _, _)
Populated(t, a, b) ==
    IF a >= b THEN << >>
    ELSE (IF Load(t, a) # NoItem THEN << <<a, Load(t, a)>> >> ELSE << >>)
         \o Populated(t, a + 1, b)

\* C4: range(a..b) yields exactly the pairs (k, item) of the keys k of [a, b)
\* that load(k) finds populated, once each, in ascending key order, whatever
\* the shape of the tree (also when the slot on the path of a is Empty).
RangeYieldsPopulated ==
    \A a \in CursorKeys : \A n \in 0..(MaxNext + 1) :
        Range("A", a, a + n) = Populated("A", a, a + n)

\* C5: the load() of a cursor created at k0 and advanced by next() returns
\* what XArray::load returns at the cursor's index.
CursorLoadAgrees ==
    cur["A"].kind = "read" =>
        Cursor_load(heap, cur["A"].c) = Load("A", cur["A"].c.index)

(***************************************************************************)
(* One tree with a write cursor that stores and advances.                  *)
(***************************************************************************)
\* The write cursor starts on the last key of the first leaf.
WriteCursorKeys == {SLOT_SIZE - 1}

NextWCur ==
    \/ \E k \in SparseKeys, item \in Items : XStore("A", k, item)
    \/ \E k \in WriteCursorKeys : WCursorNew("A", k)
    \/ WCursorNext("A")
    \/ \E item \in Items : WCursorStore("A", item)
    \/ CursorDrop("A")
SpecWCur == Init /\ [][NextWCur]_vars

\* C6: each store of a write cursor lands on the key index() had at the time
\* of the store, whatever the cursor's position state: once the cursor is
\* dropped, load(k) is the item last stored at k for every key k, and the
\* keys the cursor passed with next() without a store are as before.
CursorStoreLands ==
    Free("A") => \A k \in ObsKeys : Load("A", k) = Model("A", k)
\* C6 witness: a cursor created on key 63 was dropped after its stores at
\* keys 64 and 65 (reached by next()), key 63 having been skipped.
CursorStoreLandsWitness ==
    /\ ret.op = "cursor_drop"
    /\ Load("A", SLOT_SIZE - 1) = NoItem
    /\ Load("A", SLOT_SIZE) # NoItem
    /\ Load("A", SLOT_SIZE + 1) # NoItem
    /\ Load("A", SLOT_SIZE) # Load("A", SLOT_SIZE + 1)

(***************************************************************************)
(* Two trees, one a clone of the other, changed through XArray calls and   *)
(* through write cursors.                                                  *)
(***************************************************************************)
\* Keys of the tree-level calls: the last key of the first leaf and the
\* first key of the second leaf.
CowKeys == {SLOT_SIZE - 1, SLOT_SIZE}
\* Keys at which the trees are observed.
CowObs == {0, SLOT_SIZE - 1, SLOT_SIZE, SLOT_SIZE + 1}
\* No tree is borrowed by a cursor.
NoBorrow == \A u \in Trees : cur[u].kind = "none"

NextCow ==
    \/ \E t \in Trees, k \in CowKeys, item \in Items : XStore(t, k, item)
    \/ \E t \in Trees, k \in CowKeys : XRemove(t, k)
    \/ \E s, t \in Trees : XClone(s, t)
    \/ \E t \in Trees : XDrop(t)
    \/ \E t \in Trees, k \in WriteCursorKeys : NoBorrow /\ WCursorNew(t, k)
    \/ \E t \in Trees : cur[t].c.index < SLOT_SIZE /\ WCursorNext(t)
    \/ \E t \in Trees, k \in WriteCursorKeys : WCursorResetTo(t, k)
    \/ \E t \in Trees, item \in Items : WCursorStore(t, item)
    \/ \E t \in Trees : WCursorRemove(t)
    \/ \E t \in Trees : CursorDrop(t)
SpecCow == Init /\ [][NextCow]_vars

\* What the tree with head entry `head` shows of its items in heap H: load
\* at the observed keys and a range across the leaf boundary.
ItemView(H, head) ==
    <<[k \in CowObs |-> XArray_load(H, head, k)],
      XArray_range(H, head, SLOT_SIZE - 2, SLOT_SIZE + 2)>>

\* C2: a call on tree t (store or remove through the XArray, or cursor_mut,
\* store, remove, next and reset_to through its write cursor) leaves load(k)
\* and the range results of every other live tree u as they are; the states
\* this is checked in include every chain of clone, change, drop and clone.
CowItemsIsolated ==
    \A t \in Trees : \A u \in Trees \ {t} :
        (Live(t) /\ Live(u)) =>
            LET kept(view) ==
                    /\ Free(t) =>
                          \A k \in CowKeys :
                              /\ \A item \in Items :
                                    ItemView(XArray_store(heap, xa[t].head, k, item).H,
                                             xa[u].head) = view
                              /\ ItemView(XArray_remove(heap, xa[t].head, k).H,
                                          xa[u].head) = view
                    /\ Free(t) =>
                          \A k \in WriteCursorKeys :
                              ItemView(CursorMut_new(heap, xa[t].head, k).H,
                                       xa[u].head) = view
                    /\ cur[t].kind = "mut" =>
                          /\ \A item \in Items :
                                ItemView(CursorMut_store(CtxOf(t), item).H,
                                         xa[u].head) = view
                          /\ ItemView(CursorMut_remove(CtxOf(t)).H, xa[u].head) = view
                          /\ ItemView(CursorMut_next(CtxOf(t)).H, xa[u].head) = view
                          /\ \A k \in WriteCursorKeys :
                                ItemView(CursorMut_reset_to(CtxOf(t), k).H,
                                         xa[u].head) = view
            IN kept(ItemView(heap, xa[u].head))
\* C2 witness: the write cursor of A has just replaced an item; B still
\* shows another item at that key, and the trees still share a node.
CowItemsIsolatedWitness ==
    /\ Live("A") /\ Live("B")
    /\ ret.op = "cursor_store" /\ ret.t = "A" /\ ret.res # NoItem
    /\ Load("B", cur["A"].c.index) = ret.res
    /\ Load("A", cur["A"].c.index) # ret.res
    /\ \E n \in DOMAIN heap : heap[n].rc > 1

(***************************************************************************)
(* Two trees with marks set and unset through write cursors.               *)
(***************************************************************************)
\* Items are stored at the keys of CowKeys, one fixed item.
NextMark ==
    \/ \E t \in Trees, k \in CowKeys : XStore(t, k, 1)
    \/ \E t \in Trees, m \in Marks \ {2} : XUnsetMarkAll(t, m)
    \/ XClone("A", "B")
    \/ XDrop("B")
    \/ \E t \in Trees, k \in CowKeys : WCursorNew(t, k)
    \/ \E t \in Trees, m \in Marks \ {2} : WCursorSetMark(t, m)
    \/ \E t \in Trees, m \in Marks \ {2} : WCursorUnsetMark(t, m)
    \/ \E t \in Trees : CursorDrop(t)
SpecMark == Init /\ [][NextMark]_vars

\* What the tree with head entry `head` shows of its marks in heap H.
MarkView(H, head) ==
    [k \in CowObs |-> [m \in Marks |-> XArray_is_marked_at(H, head, k, m)]]

\* C3: set_mark and unset_mark through the write cursor of tree t, and
\* unset_mark_all on t, leave is_marked(k, m) of every other live tree u as
\* it is for every key k and mark m, also while both trees hold a write
\* cursor on a leaf they shared.
CowMarksIsolated ==
    \A t \in Trees : \A u \in Trees \ {t} :
        (Live(t) /\ Live(u)) =>
            LET kept(view) ==
                    /\ cur[t].kind = "mut" =>
                          \A m \in Marks :
                              /\ MarkView(CursorMut_set_mark(CtxOf(t), m).H,
                                          xa[u].head) = view
                              /\ MarkView(CursorMut_unset_mark(CtxOf(t), m).H,
                                          xa[u].head) = view
                    /\ Free(t) =>
                          \A m \in Marks :
                              MarkView(XArray_unset_mark_all(heap, xa[t].head, m).H,
                                       xa[u].head) = view
            IN kept(MarkView(heap, xa[u].head))
\* C3 witness: both trees hold a write cursor on the same key, each on its own
\* copy of the leaf; set_mark on A has just succeeded, B does not show the
\* mark, and the trees still share a node.
CowMarksIsolatedWitness ==
    /\ Live("A") /\ Live("B")
    /\ cur["A"].kind = "mut" /\ cur["B"].kind = "mut"
    /\ cur["A"].c.at /\ cur["B"].c.at
    /\ cur["A"].c.index = cur["B"].c.index
    /\ cur["A"].c.node # cur["B"].c.node
    /\ ret.op = "set_mark" /\ ret.t = "A" /\ ret.res = "Ok"
    /\ \E m \in Marks : /\ IsMarked("A", cur["A"].c.index, m)
                        /\ ~IsMarked("B", cur["A"].c.index, m)
    /\ \E n \in DOMAIN heap : heap[n].rc > 1

\* C10: set_mark(m) through a write cursor that is positioned on a key k
\* holding an item returns Ok, makes is_marked(k, m) true and changes
\* is_marked(k2, m2) for no other key or mark.
SetMarkFrame ==
    \A t \in Trees : \A m \in Marks :
        (Live(t) /\ cur[t].kind = "mut" /\ is_arrived(cur[t].c)
                 /\ Load(t, cur[t].c.index) # NoItem) =>
            LET after(r) ==
                    /\ r.ret = "Ok"
                    /\ Cursor_is_marked(r.H, r.c, m)
                    /\ \A k \in CowObs : \A m2 \in Marks :
                          XArray_is_marked_at(r.H, r.head, k, m2) =
                              IF k = cur[t].c.index /\ m2 = m THEN TRUE
                              ELSE IsMarked(t, k, m2)
            IN after(CursorMut_set_mark(CtxOf(t), m))
\* C10 witness: set_mark has just succeeded on a tree in which the cursor's
\* key carries mark 0 and not mark 1, and another key holding an item
\* carries mark 1 and not mark 0.
SetMarkFrameWitness ==
    /\ ret.op = "set_mark" /\ ret.res = "Ok"
    /\ cur[ret.t].kind = "mut" /\ cur[ret.t].c.at
    /\ IsMarked(ret.t, cur[ret.t].c.index, 0)
    /\ ~IsMarked(ret.t, cur[ret.t].c.index, 1)
    /\ \E k \in CowKeys : /\ k # cur[ret.t].c.index
                          /\ Load(ret.t, k) # NoItem
                          /\ IsMarked(ret.t, k, 1) /\ ~IsMarked(ret.t, k, 0)

(***************************************************************************)
(* Two trees with items stored and removed and marks set and unset, one    *)
(* write cursor at a time.                                                 *)
(***************************************************************************)
NextProp ==
    \/ \E t \in Trees, k \in CowKeys : XStore(t, k, 1)
    \/ \E t \in Trees : XRemove(t, SLOT_SIZE)
    \/ \E t \in Trees, m \in Marks \ {2} : XUnsetMarkAll(t, m)
    \/ XClone("A", "B")
    \/ XDrop("B")
    \/ \E t \in Trees, k \in CowKeys : NoBorrow /\ WCursorNew(t, k)
    \/ \E t \in Trees, m \in Marks \ {2} : WCursorSetMark(t, m)
    \/ \E t \in Trees, m \in Marks \ {2} : WCursorUnsetMark(t, m)
    \/ \E t \in Trees : CursorDrop(t)
SpecProp == Init /\ [][NextProp]_vars

\* C9: after every call, for every interior node n, offset o and mark m, bit
\* o of n.marks[m] is set exactly if the slot o of n holds a child node that
\* has some bit set in its own marks[m].
MarkPropagation ==
    \A n \in DOMAIN heap :
        heap[n].height > 1 =>
            \A m \in Marks :
                heap[n].marks[m] =
                    {o \in 0..(SLOT_SIZE - 1) :
                        /\ is_node(Slot(heap, n, o))
                        /\ ~node_is_mark_clear(heap, Slot(heap, n, o).val, m)}
\* C9 witness: unset_mark has just run on a tree of height 2 whose root shows
\* mark 0 for both leaves and mark 1 for neither, while the other tree, which
\* shares a leaf with it, shows mark 1 at its root.
MarkPropagationWitness ==
    /\ ret.op = "unset_mark" /\ ret.res = "Ok"
    /\ Live("A") /\ Live("B")
    /\ HeadHeight("A") = 2 /\ HeadHeight("B") = 2
    /\ \E t \in Trees : \E u \in Trees \ {t} :
          /\ ret.t = t
          /\ heap[xa[t].head.val].marks[0] = {0, 1}
          /\ heap[xa[t].head.val].marks[1] = {}
          /\ heap[xa[u].head.val].marks[1] # {}
    /\ \E n \in DOMAIN heap : heap[n].rc > 1

(***************************************************************************)
(* One tree of height up to 3 with marks: items are stored and removed at  *)
(* the first key of three leaves, a write cursor is created on those keys  *)
(* and on keys it cannot reach.                                            *)
(***************************************************************************)
\* Keys of the tree-level calls: the first keys of the first and the second
\* leaf, and the first key that needs height 3.
DeepKeys == {0, SLOT_SIZE, SLOT_SIZE * SLOT_SIZE}
\* Keys a write cursor is created on: those, a key of a leaf that is never
\* allocated and a key next to the first one.
DeepCursorKeys == DeepKeys \cup {1, 2 * SLOT_SIZE}

NextDeep ==
    \/ \E k \in DeepKeys : XStore("A", k, 1)
    \/ \E k \in DeepKeys : XRemove("A", k)
    \/ \E m \in Marks \ {2} : XUnsetMarkAll("A", m)
    \/ \E k \in DeepCursorKeys : WCursorNew("A", k)
    \/ \E m \in Marks \ {2} : WCursorSetMark("A", m)
    \/ \E m \in Marks \ {2} : WCursorUnsetMark("A", m)
    \/ CursorDrop("A")
SpecDeep == Init /\ [][NextDeep]_vars

\* The mark words of the nodes on the path of key index, from the head down
\* to the leaf.
PathMarks(H, head, index) ==
    LET of(c) == [i \in 1..(Len(c.anc) + 1) |->
                     H[IF i <= Len(c.anc) THEN c.anc[i] ELSE c.node].marks]
    IN of(Cursor_new(H, head, index))

\* C11: unset_mark(m) through a write cursor created on a key k that holds an
\* item returns Ok whether or not the mark is set, leaves is_marked(k, m)
\* false and the other marks of k as they are; and when mark m of k is clear,
\* set_mark(m) followed by unset_mark(m) leaves every mark word of the leaf
\* and of all its ancestors as it was before the set_mark.
UnsetMarkRestores ==
    \A m \in Marks :
        (cur["A"].kind = "mut" /\ Load("A", cur["A"].c.index) # NoItem) =>
            LET unset(r) ==
                    /\ r.ret = "Ok"
                    /\ ~XArray_is_marked_at(r.H, r.head, cur["A"].c.index, m)
                    /\ \A m2 \in Marks \ {m} :
                          XArray_is_marked_at(r.H, r.head, cur["A"].c.index, m2)
                              = IsMarked("A", cur["A"].c.index, m2)
                restored(u) ==
                    /\ u.ret = "Ok"
                    /\ PathMarks(u.H, u.head, cur["A"].c.index)
                           = PathMarks(heap, xa["A"].head, cur["A"].c.index)
                round(s) ==
                    /\ s.ret = "Ok"
                    /\ restored(CursorMut_unset_mark(CtxPart(s), m))
            IN /\ unset(CursorMut_unset_mark(CtxOf("A"), m))
               /\ ~IsMarked("A", cur["A"].c.index, m) =>
                      round(CursorMut_set_mark(CtxOf("A"), m))
\* C11 witness: unset_mark has just returned Ok on a key of a tree of height 3
\* that still carries the other mark, while another leaf carries the mark
\* that was unset.
UnsetMarkRestoresWitness ==
    /\ ret.op = "unset_mark" /\ ret.res = "Ok"
    /\ cur["A"].kind = "mut" /\ HeadHeight("A") = 3
    /\ Load("A", cur["A"].c.index) # NoItem
    /\ ~IsMarked("A", cur["A"].c.index, 0)
    /\ IsMarked("A", cur["A"].c.index, 1)
    /\ \E k \in DeepKeys : k # cur["A"].c.index /\ Load("A", k) # NoItem
                            /\ IsMarked("A", k, 0)

\* Keys at which the tree is observed.
DeepObs == DeepCursorKeys \cup {SLOT_SIZE + 1, SLOT_SIZE * SLOT_SIZE - 1}
\* What the tree with head entry `head` shows in heap H: load and is_marked
\* at the observed keys, and the height of the tree.
TreeView(H, head) ==
    <<[k \in DeepObs |-> XArray_load(H, head, k)],
      [k \in DeepObs |-> [m \in Marks |-> XArray_is_marked_at(H, head, k, m)]],
      IF is_node(head) THEN H[head.val].height ELSE 0>>

\* C12: set_mark(m) and unset_mark(m) through a write cursor created on a key
\* that holds no item (its leaf slot is Empty, or the cursor cannot reach it:
\* the key is beyond the range of the tree or under an Empty interior slot)
\* return Err and leave every load and is_marked result and the height of
\* the tree as they are.
MarkMissingItem ==
    \A m \in Marks :
        (cur["A"].kind = "mut" /\ Load("A", cur["A"].c.index) = NoItem) =>
            LET same(r, view) == r.ret = "Err" /\ TreeView(r.H, r.head) = view
                both(view) ==
                    /\ same(CursorMut_set_mark(CtxOf("A"), m), view)
                    /\ same(CursorMut_unset_mark(CtxOf("A"), m), view)
            IN both(TreeView(heap, xa["A"].head))
\* C12 witness: set_mark has just returned Err on a key under an Empty slot of
\* an interior node of a tree of height 3 that holds a marked item.
MarkMissingItemWitness ==
    /\ ret.op = "set_mark" /\ ret.res = "Err"
    /\ cur["A"].kind = "mut" /\ ~cur["A"].c.at
    /\ cur["A"].c.index = 2 * SLOT_SIZE
    /\ HeadHeight("A") = 3
    /\ Load("A", 0) # NoItem /\ IsMarked("A", 0, 0)

(***************************************************************************)
(* unset_mark_all on the trees of SpecProp.                                *)
(***************************************************************************)
\* The nodes reachable from the head entry `head` in heap H.
ReachableNodes(H, head) ==
    SeqRange(VisitOrder(H, IF is_node(head) THEN <<head.val>> ELSE << >>, << >>))

\* C13: after unset_mark_all(m) on a tree reached by any sequence of store,
\* remove, set_mark, unset_mark, unset_mark_all and clone, no node reachable
\* from the root of the tree has a bit set in marks[m], and is_marked(k, m)
\* is false for every key k.
UnsetMarkAllClears ==
    \A t \in Trees : \A m \in Marks :
        Free(t) =>
            LET clear(r) ==
                    /\ \A n \in ReachableNodes(r.H, r.head) : r.H[n].marks[m] = {}
                    /\ \A k \in CowObs : ~XArray_is_marked_at(r.H, r.head, k, m)
            IN clear(XArray_unset_mark_all(heap, xa[t].head, m))
\* C13 witness: unset_mark_all has just run on a tree of height 2 that shows
\* mark 0 nowhere and still shows mark 1, while the other tree, which shares
\* a node with it, still shows mark 0.
UnsetMarkAllClearsWitness ==
    /\ ret.op = "unset_mark_all"
    /\ Live("A") /\ Live("B")
    /\ HeadHeight(ret.t) = 2
    /\ \A k \in CowKeys : ~IsMarked(ret.t, k, 0)
    /\ \E k \in CowKeys : IsMarked(ret.t, k, 1)
    /\ \E u \in Trees \ {ret.t} : \E k \in CowKeys : IsMarked(u, k, 0)
    /\ \E n \in DOMAIN heap : heap[n].rc > 1

(***************************************************************************)
(* Two trees with tree-level marks next to the marks of their items.       *)
(***************************************************************************)
NextFlag ==
    \/ \E t \in Trees, k \in CowKeys : XStore(t, k, 1)
    \/ \E t \in Trees : XSetTreeMark(t, 1)
    \/ \E t \in Trees : XUnsetTreeMark(t, 1)
    \/ \E t \in Trees, m \in Marks \ {2} : XUnsetMarkAll(t, m)
    \/ XClone("A", "B")
    \/ XDrop("B")
    \/ \E t \in Trees, k \in CowKeys : NoBorrow /\ WCursorNew(t, k)
    \/ \E t \in Trees, m \in Marks \ {2} : WCursorSetMark(t, m)
    \/ \E t \in Trees : CursorDrop(t)
SpecFlag == Init /\ [][NextFlag]_vars

\* C14: unset_mark_all(m) on a tree changes nothing but mark m: load(k) for
\* every key k, is_marked(k, m2) for every key k and every mark m2 other than
\* m and the height of the tree are as before, and so are the tree-level
\* mark flags of every tree.
UnsetMarkAllFrame ==
    /\ [](\A t \in Trees : \A m \in Marks :
            Free(t) =>
                LET kept(r) ==
                        /\ \A k \in CowObs :
                              /\ XArray_load(r.H, r.head, k) = Load(t, k)
                              /\ \A m2 \in Marks \ {m} :
                                    XArray_is_marked_at(r.H, r.head, k, m2)
                                        = IsMarked(t, k, m2)
                        /\ xa_max_index(r.H, r.head) = xa_max_index(heap, xa[t].head)
                IN kept(XArray_unset_mark_all(heap, xa[t].head, m)))
    /\ [][ret'.op = "unset_mark_all" =>
             \A u \in Trees : xa'[u].marks = xa[u].marks]_vars
\* C14 witness: unset_mark_all has just run on a tree of height 2 whose
\* tree-level flag 1 is set, that holds two items, shows mark 1 and no mark 0,
\* and shares a node with the other tree, which still shows mark 0.
UnsetMarkAllFrameWitness ==
    /\ ret.op = "unset_mark_all"
    /\ Live("A") /\ Live("B")
    /\ HeadHeight(ret.t) = 2
    /\ XArray_is_marked(xa[ret.t].marks, 1)
    /\ \A k \in CowKeys : Load(ret.t, k) # NoItem /\ ~IsMarked(ret.t, k, 0)
    /\ \E k \in CowKeys : IsMarked(ret.t, k, 1)
    /\ \E u \in Trees \ {ret.t} : \E k \in CowKeys : IsMarked(u, k, 0)
    /\ \E n \in DOMAIN heap : heap[n].rc > 1

\* C15: a key that holds no item is never reported as marked (the mark bits
\* of a leaf slot are cleared when its item is removed), and a store on a key
\* leaves is_marked(k, m) false for every mark m.  Stated on the tree of
\* SpecDeep.
LeafMarksCleared ==
    /\ \A k \in DeepObs : \A m \in Marks :
          Load("A", k) = NoItem => ~IsMarked("A", k, m)
    /\ Free("A") =>
          \A k \in DeepKeys : \A m \in Marks :
              LET cleared(r) == ~XArray_is_marked_at(r.H, r.head, k, m)
              IN cleared(XArray_store(heap, xa["A"].head, k, 2))

\* Keys beyond the range of a tree of height 3 are observed too.
FarObs == DeepObs \cup {SLOT_SIZE * SLOT_SIZE * SLOT_SIZE}

\* C16: for a key k beyond the range of the tree (any key when the tree is
\* empty), load(k) is None, is_marked(k, m) is false and remove(k) returns
\* None and leaves the heap and the head entry as they are, also through a
\* write cursor created on k; and the height of the tree changes in no call
\* but store.
BeyondRangeQuiet ==
    /\ [](\A k \in FarObs :
            (is_null(xa["A"].head) \/ k > height_max_index(HeadHeight("A"))) =>
                LET quiet(r) == r.ret = NoItem /\ r.H = heap /\ r.head = xa["A"].head
                IN /\ Load("A", k) = NoItem
                   /\ \A m \in Marks : ~IsMarked("A", k, m)
                   /\ Free("A") => quiet(XArray_remove(heap, xa["A"].head, k))
                   /\ (cur["A"].kind = "mut" /\ cur["A"].c.index = k) =>
                         /\ CursorMut_load(CtxOf("A")) = NoItem
                         /\ quiet(CursorMut_remove(CtxOf("A"))))
    /\ [][HeadHeight("A")' # HeadHeight("A") => ret'.op = "store"]_vars
\* C16 witness: a remove has just returned None on a tree of height 2 that
\* holds an item in each of its two leaves: the key of the remove, the first
\* key of height 3, is beyond the range of the tree.
BeyondRangeQuietWitness ==
    /\ ret.op = "remove" /\ ret.res = NoItem
    /\ HeadHeight("A") = 2
    /\ Load("A", 0) # NoItem /\ Load("A", SLOT_SIZE) # NoItem
    /\ IsMarked("A", 0, 0)

(***************************************************************************)
(* Growth of the tree, on the trees of SpecMap (heights 0 to 3).           *)
(***************************************************************************)
\* Keys a store is tried at: the observed keys, and both sides of the first
\* key that needs height 4.
GrowKeys == ObsKeys \cup {SLOT_SIZE * SLOT_SIZE * SLOT_SIZE - 1,
                          SLOT_SIZE * SLOT_SIZE * SLOT_SIZE}

\* C17: after expand_height for key k, and after the store at k that performs
\* it, the max_index of the tree is at least k, whatever the tree was before
\* (empty or of any height).
GrowCoversKey ==
    \A k \in GrowKeys :
        LET covers(r) == xa_max_index(r.H, r.head) >= k
        IN /\ covers(expand_height(
                         Ctx(heap, xa["A"].head,
                             [Cursor_default(k) EXCEPT !.excl = TRUE])))
           /\ covers(XArray_store(heap, xa["A"].head, k, 1))
\* C17 witness: a store on a new key has just left a tree of height 3 that
\* holds items in its first two leaves and at the first key of height 3.
GrowCoversKeyWitness ==
    /\ ret.op = "store" /\ ret.res = NoItem
    /\ HeadHeight("A") = 3
    /\ Load("A", 0) # NoItem /\ Load("A", SLOT_SIZE) # NoItem
    /\ Load("A", SLOT_SIZE * SLOT_SIZE) # NoItem

(***************************************************************************)
(* One tree with a cursor created on the largest key.                      *)
(***************************************************************************)
TopKeys == {U64_MAX}

NextTop ==
    \/ \E k \in SparseKeys, item \in Items : XStore("A", k, item)
    \/ \E k \in SparseKeys : XRemove("A", k)
    \/ \E k \in TopKeys : RCursorNew("A", k)
    \/ RCursorNext("A")
    \/ \E k \in TopKeys : WCursorNew("A", k)
    \/ WCursorNext("A")
    \/ CursorDrop("A")
SpecTop == Init /\ [][NextTop]_vars

\* C18: next() on a cursor (read or write) whose index is the largest u64 is
\* a trap: no call of next() returns from that index (with the index wrapped
\* around to 0).
NextTrapsAtMax ==
    [][ret'.op = "next" => cur[ret'.t].c.index # U64_MAX]_vars

(***************************************************************************)
(* Ownership, on the trees of SpecCow.  An item is owned by the slot that  *)
(* holds it: it leaves the tree when the slot is overwritten or removed    *)
(* (the call hands it back) and is released with its node otherwise.       *)
(***************************************************************************)
\* The slots of the heap, as pairs <<node, offset>>.
HeapSlots == UNION {{<<p, o>> : o \in DOMAIN heap[p].slots} : p \in DOMAIN heap}

TreeMarksIndependent ==
    /\ [](ret.op = "none" =>
             \A t \in Trees : \A m \in Marks : ~XArray_is_marked(xa[t].marks, m))
    /\ [][LET t == ret'.t
              others == \A u \in Trees \ {t} : xa'[u] = xa[u]
          IN CASE ret'.op = "set_tree_mark" ->
                      /\ XArray_is_marked(xa'[t].marks, ret'.res)
                      /\ xa'[t] = [xa[t] EXCEPT !.marks[ret'.res] = TRUE]
                      /\ heap' = heap /\ others
               [] ret'.op = "unset_tree_mark" ->
                      /\ ~XArray_is_marked(xa'[t].marks, ret'.res)
                      /\ xa'[t] = [xa[t] EXCEPT !.marks[ret'.res] = FALSE]
                      /\ heap' = heap /\ others
               [] ret'.op = "clone" ->
                      \A u \in Trees \ {t} :
                          xa'[t].marks = xa[u].marks /\ xa'[u].marks = xa[u].marks
               [] ret'.op = "drop" ->
                      \A u \in Trees \ {t} : xa'[u].marks = xa[u].marks
               [] OTHER ->
                      \A u \in Trees : xa'[u].marks = xa[u].marks]_vars
\* C20 witness: set_mark(1) has just run on tree A; its clone B does not have
\* flag 1 but shows mark 1 on an item, and A shows mark 1 on no item.
TreeMarksIndependentWitness ==
    /\ ret.op = "set_tree_mark" /\ ret.t = "A"
    /\ Live("A") /\ Live("B")
    /\ XArray_is_marked(xa["A"].marks, 1) /\ ~XArray_is_marked(xa["B"].marks, 1)
    /\ \E k \in CowKeys : IsMarked("B", k, 1)
    /\ \A k \in CowKeys : Load("A", k) # NoItem /\ ~IsMarked("A", k, 1)

(***************************************************************************)
(* One tree with a read cursor or a write cursor that is advanced and      *)
(* reset.                                                                  *)
(***************************************************************************)
\* Keys a cursor is created on or reset to: the keys of CursorKeys and the
\* keys that hold the items.
ResetKeys == CursorKeys \cup SparseKeys

NextReset ==
    \/ \E k \in SparseKeys : XStore("A", k, 1)
    \/ \E k \in ResetKeys : RCursorNew("A", k)
    \/ RCursorNext("A")
    \/ \E k \in ResetKeys : RCursorResetTo("A", k)
    \/ \E k \in ResetKeys : WCursorNew("A", k)
    \/ WCursorNext("A")
    \/ \E k \in ResetKeys : WCursorResetTo("A", k)
    \/ WCursorSetMark("A", 0)
    \/ CursorDrop("A")
SpecReset == Init /\ [][NextReset]_vars

\* C21: after reset_to(k) on a cursor (read or write) in any state (Inactive,
\* positioned, advanced by next(), exclusive after a set_mark), index() is k and
\* load() and is_marked(m) return what they return on a cursor newly created
\* on k.
ResetToAsFresh ==
    \A k \in ResetKeys :
        /\ cur["A"].kind = "read" =>
              LET same(c, f) ==
                      /\ c.index = k
                      /\ Cursor_load(heap, c) = Cursor_load(heap, f)
                      /\ \A m \in Marks :
                            Cursor_is_marked(heap, c, m) = Cursor_is_marked(heap, f, m)
              IN same(Cursor_reset_to(heap, xa["A"].head, cur["A"].c, k),
                      Cursor_new(heap, xa["A"].head, k))
        /\ cur["A"].kind = "mut" =>
              LET same(r, f) ==
                      /\ r.c.index = k
                      /\ CursorMut_load(CtxPart(r)) = CursorMut_load(CtxPart(f))
                      /\ \A m \in Marks :
                            Cursor_is_marked(r.H, r.c, m) = Cursor_is_marked(f.H, f.c, m)
              IN same(CursorMut_reset_to(CtxOf("A"), k),
                      CursorMut_new(heap, xa["A"].head, k))
\* C21 witness: reset_to has just moved a cursor from another leaf, or from
\* the Inactive state, onto a key of a tree of height 2 that holds a marked
\* item.
ResetToAsFreshWitness ==
    /\ ret.op = "reset_to"
    /\ cur["A"].kind # "none" /\ cur["A"].c.at
    /\ HeadHeight("A") = 2
    /\ Cursor_load(heap, cur["A"].c) # NoItem
    /\ Cursor_is_marked(heap, cur["A"].c, 0)
    /\ Load("A", 2 * SLOT_SIZE) # NoItem

(***************************************************************************)
(* Two threads, each the owner of one tree and of the write cursor on it,  *)
(* running at the same time.  A call of a thread is a sequence of steps:   *)
(* the strong count of an entry is read in one step, the copy of a shared  *)
(* node (copy_if_shared) is made in one step, the copy is put into the     *)
(* slot or the head in one step, and the entry it replaces is dropped in   *)
(* one step, so that the steps of the other thread fall between them.  The  *)
(* record of a thread is kept in cur[t] (kind "task"): the cursor c, the   *)
(* position pc in the call, the entry holder h of the copy in progress     *)
(* (<<0, 0>> is the head, <<n, o>> the slot o of node n) and the position  *)
(* to return to.  The nodes keep their ids during these steps.  A step     *)
(* that changes nodes changes them under their locks, as one step.         *)
(***************************************************************************)
Other(t) == CHOOSE u \in Trees : u # t
HeadHolder == <<0, 0>>
\* The number of calls the thread of tree t has begun.
Calls(t) == IF cur[t].kind = "task" THEN cur[t].n ELSE 0
EntryAt(t, h) == IF h = HeadHolder THEN xa[t].head ELSE Slot(heap, h[1], h[2])

\* The calls of a thread, as CursorMut runs them.
TaskApply(x, op, arg) ==
    CASE op = "store" -> CursorMut_store(x, arg)
      [] op = "remove" -> CursorMut_remove(x)
      [] op = "set_mark" -> CursorMut_set_mark(x, arg)
      [] op = "unset_mark" -> CursorMut_unset_mark(x, arg)
      [] op = "unset_mark_all" ->
             LET cleared(r) == [H |-> r.H, head |-> r.head, c |-> x.c, ret |-> 0]
             IN cleared(XArray_unset_mark_all(x.H, x.head, arg))

\* What a tree shows: its items and its marks at the observed keys.
View(H, head) == <<ItemView(H, head), MarkView(H, head)>>

\* (seen, the nodes that unset_mark_all has taken from its handle_list, is
\* kept for the proofs only: no step reads it.)
\* cursor_mut(k) followed by the call op of the cursor, or unset_mark_all:
\* the cursor is created (the descent of a cursor that is not exclusive only
\* reads), and the call starts.  exp is what the call returns and what the
\* tree shows after it when it runs alone.
TaskBegin(t, op, k, arg) ==
    /\ \A u \in Trees : Live(u) /\ cur[u].kind # "mut"
    /\ cur[t].kind = "none" \/ (cur[t].kind = "task" /\ cur[t].pc = "done")
    /\ Calls(t) < MaxCalls
    /\ LET start(x) ==
               LET alone(r) ==
                       cur' = [cur EXCEPT ![t] =
                                  [kind |-> "task", c |-> x.c,
                                   pc |-> IF op = "unset_mark_all" THEN "u_head"
                                          ELSE "ensure",
                                   op |-> op, arg |-> arg, i |-> 0, kept |-> << >>,
                                   todo |-> {}, seen |-> << >>,
                                   h |-> HeadHolder, new |-> EMPTY, old |-> EMPTY,
                                   back |-> "done", res |-> 0, n |-> Calls(t) + 1,
                                   exp |-> <<r.ret, View(r.H, r.head)>>]]
               IN alone(TaskApply(x, op, arg))
       IN start(IF op = "unset_mark_all" THEN Ctx(heap, xa[t].head, Cursor_default(0))
                ELSE CtxPart(CursorMut_new(heap, xa[t].head, k)))
    /\ ret' = Ret("begin", t, k, arg, op)
    /\ UNCHANGED <<heap, xa, amap>>

TaskStep(t) ==
    LET k == cur[t]
        c == cur[t].c
        cow(k2, h, back) == [k2 EXCEPT !.pc = "cow_copy", !.h = h, !.back = back]
        enter(k2, n, back) ==
            cow([k2 EXCEPT !.c = arrive_node(k2.c, n, entry_offset(heap, n, c.index))],
                <<n, entry_offset(heap, n, c.index)>>, back)
        local(k2) == cur' = [cur EXCEPT ![t] = k2] /\ UNCHANGED <<heap, xa>>
        returned(res) ==
            [k EXCEPT !.c = Cursor_default(0), !.res = res, !.i = 0, !.kept = << >>,
                      !.todo = {}, !.seen = << >>, !.h = HeadHolder, !.new = EMPTY, !.old = EMPTY,
                      !.back = "done", !.pc = "done"]
    IN /\ cur[t].kind = "task" /\ cur[t].pc # "done"
       /\ ret' = Ret("step", t, 0, 0, cur[t].pc)
       /\ UNCHANGED amap
       /\ CASE k.pc = "ensure" ->
                 \* ensure_exclusive_before_modify up to its first loop
                 local(IF c.excl THEN [k EXCEPT !.pc = "modify"]
                       ELSE IF ~is_arrived(c)
                            THEN [k EXCEPT !.c.excl = TRUE,
                                           !.pc = IF k.op = "store" THEN "expand"
                                                  ELSE "modify"]
                       ELSE IF node_strong_count(heap, xa[t].head) > 1
                            THEN [k EXCEPT !.c = [CursorMut_init(c) EXCEPT !.excl = TRUE],
                                           !.pc = "traverse"]
                       ELSE [k EXCEPT !.pc = "prefix", !.i = 1, !.kept = << >>])
            [] k.pc = "prefix" ->
                 \* its first loop: one ancestor per step
                 local(IF k.i > Len(c.anc)
                       THEN [k EXCEPT !.c.anc = k.kept, !.c.excl = TRUE, !.pc = "xloop"]
                       ELSE LET at(ancestor, offset) ==
                                    IF node_strong_count(heap, Slot(heap, ancestor, offset)) > 1
                                    THEN [k EXCEPT !.c = [arrive_node(c, ancestor, offset)
                                                             EXCEPT !.anc = k.kept,
                                                                    !.excl = TRUE],
                                                   !.pc = "xloop"]
                                    ELSE [k EXCEPT !.i = @ + 1,
                                                   !.kept = Append(@, ancestor)]
                            IN at(c.anc[k.i], entry_offset(heap, c.anc[k.i], c.index)))
            [] k.pc = "xloop" ->
                 \* its second loop: ref_operated_entry of the current node
                 local(IF is_leaf(heap, c.node) THEN [k EXCEPT !.pc = "modify"]
                       ELSE cow(k, <<c.node, c.off>>, "xmove"))
            [] k.pc = "xmove" ->
                 local(enter([k EXCEPT !.c.anc = Append(@, c.node)],
                             Slot(heap, c.node, c.off).val, "xloop"))
            [] k.pc = "traverse" ->
                 \* traverse_to_target of an exclusive cursor
                 local(IF u64_lt(xa_max_index(heap, xa[t].head), c.index)
                          \/ xa_max_index(heap, xa[t].head) = 0
                       THEN [k EXCEPT !.pc = "modify"]
                       ELSE cow(k, HeadHolder, "t_move"))
            [] k.pc = "t_move" ->
                 local(enter(k, xa[t].head.val, "t_loop"))
            [] k.pc = "t_loop" ->
                 local(IF is_leaf(heap, c.node) THEN cow(k, <<c.node, c.off>>, "modify")
                       ELSE cow([k EXCEPT !.c.anc = Append(@, c.node)],
                                <<c.node, c.off>>, "t_enter"))
            [] k.pc = "t_enter" ->
                 local(IF ~is_node(Slot(heap, c.node, c.off))
                       THEN [k EXCEPT !.c = CursorMut_init(c), !.pc = "modify"]
                       ELSE enter(k, Slot(heap, c.node, c.off).val, "t_loop"))
            [] k.pc = "cow_copy" ->
                 \* copy_if_shared on the entry of the holder
                 LET copied(cp) ==
                         IF cp.some
                         THEN /\ heap' = cp.H
                              /\ cur' = [cur EXCEPT ![t] = [k EXCEPT !.new = cp.e,
                                                                     !.pc = "cow_set"]]
                              /\ UNCHANGED xa
                         ELSE local([k EXCEPT !.pc = k.back])
                 IN copied(copy_if_shared(heap, EntryAt(t, k.h)))
            [] k.pc = "cow_set" ->
                 \* set_head or set_entry with the copy
                 /\ IF k.h = HeadHolder
                    THEN xa' = [xa EXCEPT ![t].head = k.new] /\ UNCHANGED heap
                    ELSE heap' = set_entry(heap, k.h[1], k.h[2], k.new) /\ UNCHANGED xa
                 /\ cur' = [cur EXCEPT ![t] = [k EXCEPT !.old = EntryAt(t, k.h),
                                                        !.pc = "cow_drop"]]
            [] k.pc = "cow_drop" ->
                 \* the replaced entry is dropped
                 /\ heap' = drop_entry(heap, k.old)
                 /\ cur' = [cur EXCEPT ![t] = [k EXCEPT !.pc = k.back]]
                 /\ UNCHANGED xa
            [] k.pc = "modify" ->
                 \* the rest of the call, on the exclusive cursor; the cursor is
                 \* dropped when the call returns
                 LET done(r) ==
                         /\ heap' = r.H
                         /\ xa' = [xa EXCEPT ![t].head = r.head]
                         /\ cur' = [cur EXCEPT ![t] = returned(r.ret)]
                 IN done(TaskApply(CtxOf(t), k.op, k.arg))
            [] k.pc = "expand" ->
                 \* expand_height of a cursor that is not arrived
                 IF is_null(xa[t].head)
                 THEN LET with(a) ==
                              /\ heap' = a.H
                              /\ xa' = [xa EXCEPT ![t].head = a.e]
                              /\ cur' = [cur EXCEPT ![t] = [k EXCEPT !.pc = "e_head"]]
                      IN with(alloc_node(heap, fit_height(1, c.index), 0))
                 ELSE local(cow(k, HeadHolder, "g_test"))
            [] k.pc = "g_test" ->
                 \* its loop: a new head is put in place of the head
                 IF height_max_index(heap[xa[t].head.val].height) > c.index
                 THEN local([k EXCEPT !.pc = "e_head"])
                 ELSE LET with(a) ==
                              /\ heap' = a.H
                              /\ xa' = [xa EXCEPT ![t].head = a.e]
                              /\ cur' = [cur EXCEPT ![t] = [k EXCEPT !.old = xa[t].head,
                                                                     !.pc = "g_fill"]]
                      IN with(alloc_node(heap, heap[xa[t].head.val].height + 1, 0))
            [] k.pc = "g_fill" ->
                 \* the marks of the new head, and the old head in its slot 0
                 /\ heap' = set_entry(
                                [heap EXCEPT ![xa[t].head.val].marks =
                                    [m \in Marks |->
                                        IF ~node_is_mark_clear(heap, k.old.val, m)
                                        THEN Mark_set(@[m], 0) ELSE @[m]]],
                                xa[t].head.val, 0, k.old)
                 /\ cur' = [cur EXCEPT ![t] = cow([k EXCEPT !.old = EMPTY],
                                                  HeadHolder, "g_test")]
                 /\ UNCHANGED xa
            [] k.pc = "e_head" ->
                 \* expand_and_traverse_to_target after expand_height
                 local(cow(k, HeadHolder, "e_move"))
            [] k.pc = "e_move" ->
                 local(enter(k, xa[t].head.val, "e_loop"))
            [] k.pc = "e_loop" ->
                 local(IF is_leaf(heap, c.node) THEN cow(k, <<c.node, c.off>>, "modify")
                       ELSE cow([k EXCEPT !.c.anc = Append(@, c.node)],
                                <<c.node, c.off>>, "e_enter"))
            [] k.pc = "e_enter" ->
                 IF ~is_node(Slot(heap, c.node, c.off))
                 THEN LET with(a) ==
                              /\ heap' = drop_entry(set_entry(a.H, c.node, c.off, a.e),
                                                    Slot(heap, c.node, c.off))
                              /\ cur' = [cur EXCEPT ![t] =
                                             cow(k, <<c.node, c.off>>, "e_enter")]
                              /\ UNCHANGED xa
                      IN with(alloc_node(heap, heap[c.node].height - 1, c.off))
                 ELSE local(enter(k, Slot(heap, c.node, c.off).val, "e_loop"))
            [] k.pc = "u_head" ->
                 \* unset_mark_all: head_mut(true)
                 local(cow(k, HeadHolder, "u_start"))
            [] k.pc = "u_start" ->
                 local([k EXCEPT !.kept = IF is_node(xa[t].head) THEN <<xa[t].head.val>>
                                          ELSE << >>,
                                 !.pc = "u_node"])
            [] k.pc = "u_node" ->
                 \* its outer loop: the first node of handle_list
                 local(IF k.kept = << >> THEN returned(0)
                       ELSE [k EXCEPT !.todo = heap[Head(k.kept)].marks[k.arg],
                                      !.pc = "u_slot"])
            [] k.pc = "u_slot" ->
                 \* its inner loop: the next marked offset
                 local(IF k.todo = {} THEN [k EXCEPT !.pc = "u_clear"]
                       ELSE cow(k, <<Head(k.kept), Min(k.todo)>>, "u_push"))
            [] k.pc = "u_push" ->
                 local([k EXCEPT !.kept = IF is_node(Slot(heap, Head(k.kept), Min(k.todo)))
                                          THEN Append(@, Slot(heap, Head(k.kept),
                                                              Min(k.todo)).val)
                                          ELSE @,
                                 !.todo = @ \ {Min(k.todo)},
                                 !.pc = "u_slot"])
            [] k.pc = "u_clear" ->
                 /\ heap' = node_clear_mark(heap, Head(k.kept), k.arg)
                 /\ cur' = [cur EXCEPT ![t] = [k EXCEPT !.kept = Tail(@),
                                                       !.seen = Append(@, Head(k.kept)),
                                                       !.pc = "u_node"]]
                 /\ UNCHANGED xa

NextStep ==
    \/ \E t \in Trees, k \in CowKeys : NoBorrow /\ XStore(t, k, 1)
    \/ NoBorrow /\ XClone("A", "B")
    \/ NoBorrow /\ WCursorNew("A", SLOT_SIZE - 1)
    \/ cur["A"].kind = "mut" /\ WCursorSetMark("A", 0)
    \/ cur["A"].kind = "mut" /\ CursorDrop("A")
    \/ \E t \in Trees, k \in CowKeys : TaskBegin(t, "store", k, 2)
    \/ \E t \in Trees : TaskBegin(t, "remove", SLOT_SIZE, 0)
    \/ \E t \in Trees : TaskBegin(t, "set_mark", SLOT_SIZE - 1, 0)
    \/ \E t \in Trees : TaskBegin(t, "unset_mark", SLOT_SIZE - 1, 0)
    \/ \E t \in Trees : TaskStep(t)
SpecStep == Init /\ [][NextStep]_vars

\* The nodes whose slots or mark words the step changes.
ChangedNodes ==
    {n \in DOMAIN heap \cap DOMAIN heap' :
        heap'[n].slots # heap[n].slots \/ heap'[n].marks # heap[n].marks}

\* C22: two trees that share nodes are written by two threads at the same
\* time, one write cursor per tree.  Under every interleaving of their steps,
\* no step of a thread changes a node that is reachable from the tree of the
\* other thread, and when a call has returned the tree shows (load and
\* is_marked at every observed key), and the call has returned, what the
\* call gives when it runs alone; a tree whose thread made no call shows
\* the items it held.
ConcurrentWritersIsolated ==
    /\ [](\A t \in Trees :
            /\ (cur[t].kind = "task" /\ cur[t].pc = "done") =>
                   cur[t].exp = <<cur[t].res, View(heap, xa[t].head)>>
            /\ (Live(t) /\ cur[t].kind = "none") =>
                   \A k \in CowObs : Load(t, k) = Model(t, k))
    /\ [][ret'.op = "step" =>
             \A n \in ChangedNodes :
                 n \notin ReachableNodes(heap, xa[Other(ret'.t)].head)]_vars
\* C22 witness: both threads have returned from a call on the key of a leaf
\* the trees shared, a store and a set_mark; each tree now has its own leaf
\* for that key and shows its own result, and the trees still share the
\* other leaf.
ConcurrentWritersIsolatedWitness ==
    /\ ret.op = "step" /\ ret.res = "modify"
    /\ \A t \in Trees : cur[t].kind = "task" /\ cur[t].pc = "done"
    /\ cur["A"].op = "store" /\ cur["A"].res = 1
    /\ cur["B"].op = "set_mark" /\ cur["B"].res = "Ok"
    /\ Load("A", SLOT_SIZE - 1) = 2 /\ ~IsMarked("A", SLOT_SIZE - 1, 0)
    /\ Load("B", SLOT_SIZE - 1) = 1 /\ IsMarked("B", SLOT_SIZE - 1, 0)
    /\ Cursor_new(heap, xa["A"].head, SLOT_SIZE).node
           = Cursor_new(heap, xa["B"].head, SLOT_SIZE).node
    /\ \E n \in DOMAIN heap : heap[n].rc > 1

\* C23: clone() copies no node.  Right after B = A.clone() both trees have
\* the head entry A had; when it is a node, the strong count of that node is
\* one more than before and every other node, with its strong count, is as
\* before, and no node is added; load(k) of B is load(k) of A for every k;
\* the clone of an empty tree is an empty tree.  Checked on the trees of
\* SpecCow, in either direction of the clone.
CloneSharesHead ==
    /\ [](ret.op = "clone" =>
             \A k \in CowObs \cup CowKeys : Load("A", k) = Load("B", k))
    /\ [][ret'.op = "clone" =>
             LET t == ret'.t
                 s == Other(ret'.t)
             IN /\ xa'[t].head = xa[s].head
                /\ xa'[s].head = xa[s].head
                /\ DOMAIN heap' = DOMAIN heap
                /\ \A n \in DOMAIN heap :
                      heap'[n] = IF xa[s].head = node_entry(n)
                                 THEN [heap[n] EXCEPT !.rc = @ + 1]
                                 ELSE heap[n]
                /\ is_null(xa[s].head) => (is_null(xa'[t].head) /\ heap' = heap)]_vars
\* C23 witness: a tree of height 2 with items in both leaves has just been
\* cloned: the head node has two owners, each leaf has one.
CloneSharesHeadWitness ==
    /\ ret.op = "clone"
    /\ Live("A") /\ Live("B")
    /\ xa["A"].head = xa["B"].head
    /\ HeadHeight("A") = 2
    /\ heap[xa["A"].head.val].rc = 2
    /\ \A n \in DOMAIN heap \ {xa["A"].head.val} : heap[n].rc = 1
    /\ \A k \in CowKeys : Load("B", k) # NoItem

(***************************************************************************)
(* Two trees with store_with_mark and remove.                              *)
(***************************************************************************)
NextWithMark ==
    \/ \E t \in Trees, k \in CowKeys, item \in Items :
          XStoreWithMark(t, k, item, 0)
    \/ \E k \in CowKeys : XStoreWithMark("A", k, 1, 1)
    \/ XRemove("A", SLOT_SIZE)
    \/ XClone("A", "B")
    \/ XDrop("B")
SpecWithMark == Init /\ [][NextWithMark]_vars

\* C24: store_with_mark(k, v, m) returns the item k held (None when it held
\* none) and afterwards load_with_mark(k, m) is Some((v, true)); and
\* load_with_mark(k, m) is None exactly when load(k) is None, and is the item
\* of load(k) with is_marked(k, m) otherwise.
StoreWithMarkLoads ==
    \A t \in Trees : Live(t) =>
        /\ \A k \in CowObs, m \in Marks :
              XArray_load_with_mark(heap, xa[t].head, k, m) =
                  IF Load(t, k) = NoItem THEN NoItem
                  ELSE <<Load(t, k), IsMarked(t, k, m)>>
        /\ \A k \in CowKeys, item \in Items, m \in Marks :
              LET after(r) ==
                      /\ r.ok
                      /\ r.ret = Load(t, k)
                      /\ XArray_load_with_mark(r.H, r.head, k, m) = <<item, TRUE>>
              IN after(XArray_store_with_mark(heap, xa[t].head, k, item, m))
\* C24 witness: store_with_mark has just replaced an item on a key that
\* carried another mark, in a tree that shares a node with the other tree;
\* the key now carries both marks.
StoreWithMarkLoadsWitness ==
    /\ ret.op = "store_with_mark" /\ ret.res # NoItem
    /\ Live("A") /\ Live("B")
    /\ \E k \in CowKeys :
          /\ Load(ret.t, k) # NoItem /\ Load(ret.t, k) # ret.res
          /\ XArray_load_with_mark(heap, xa[ret.t].head, k, 0) = <<Load(ret.t, k), TRUE>>
          /\ XArray_load_with_mark(heap, xa[ret.t].head, k, 1) = <<Load(ret.t, k), TRUE>>
          /\ Load(Other(ret.t), k) = ret.res
    /\ \E n \in DOMAIN heap : heap[n].rc > 1

(***************************************************************************)
(* Two trees that grow to height 3 while they share nodes.                 *)
(***************************************************************************)
NextGrow ==
    \/ \E t \in Trees, k \in DeepKeys : XStore(t, k, 1)
    \/ \E t \in Trees : XRemove(t, 0)
    \/ XClone("A", "B")
    \/ XDrop("B")
SpecGrow == Init /\ [][NextGrow]_vars

\* C25: after every call, the head entry of every tree is Empty or a node
\* with offset_in_parent 0; a node held by the slot o of a node of height h
\* has height h - 1 and offset_in_parent o; the slots of a leaf (height 1)
\* hold items only and the slots of an interior node hold nodes only (or are
\* Empty).  The calls grow the trees, create nodes on the way down and copy
\* shared nodes.
NodeStructure ==
    /\ \A t \in Trees :
          Live(t) =>
              \/ is_null(xa[t].head)
              \/ /\ is_node(xa[t].head)
                 /\ heap[xa[t].head.val].offset_in_parent = 0
                 /\ heap[xa[t].head.val].height >= 1
    /\ \A n \in DOMAIN heap : \A o \in DOMAIN heap[n].slots :
          LET holds(e) ==
                  IF heap[n].height = 1 THEN is_item(e)
                  ELSE /\ is_node(e)
                       /\ heap[e.val].height = heap[n].height - 1
                       /\ heap[e.val].offset_in_parent = o
          IN /\ o \in 0..(SLOT_SIZE - 1)
             /\ holds(heap[n].slots[o])
\* C25 witness: a store has just made a tree of height 3 out of a tree that
\* shared its nodes with the other tree, which still has height 2: the old
\* head is held by slot 0 of the new head and by the other tree.
NodeStructureWitness ==
    /\ ret.op = "store" /\ ret.res = NoItem
    /\ Live("A") /\ Live("B")
    /\ HeadHeight(ret.t) = 3 /\ HeadHeight(Other(ret.t)) = 2
    /\ Cardinality(DOMAIN heap[xa[ret.t].head.val].slots) = 2
    /\ \E n \in DOMAIN heap : heap[n].rc > 1
    /\ \A k \in DeepKeys : Load(ret.t, k) # NoItem

\* The same threads with the calls that grow a tree and with unset_mark_all.
NextStepAll ==
    \/ \E k \in CowKeys : NoBorrow /\ XStore("A", k, 1)
    \/ NoBorrow /\ XClone("A", "B")
    \/ NoBorrow /\ WCursorNew("A", SLOT_SIZE - 1)
    \/ cur["A"].kind = "mut" /\ WCursorSetMark("A", 0)
    \/ cur["A"].kind = "mut" /\ CursorDrop("A")
    \/ TaskBegin("A", "store", SLOT_SIZE * SLOT_SIZE, 2)
    \/ TaskBegin("A", "unset_mark_all", 0, 0)
    \/ TaskBegin("B", "store", SLOT_SIZE - 1, 2)
    \/ TaskBegin("B", "set_mark", SLOT_SIZE - 1, 0)
    \/ TaskBegin("B", "unset_mark", SLOT_SIZE - 1, 0)
    \/ TaskBegin("B", "remove", SLOT_SIZE, 0)
    \/ \E t \in Trees : TaskStep(t)
SpecStepAll == Init /\ [][NextStepAll]_vars

\* C26: in every step of store, remove, set_mark, unset_mark, unset_mark_all
\* and of the growth of a tree, taken while the other thread is anywhere in
\* its own call, every node whose slots or mark words change had a strong
\* count of exactly 1 when the step began.
NoSharedMutation ==
    [][ret'.op = "step" => \A n \in ChangedNodes : heap[n].rc = 1]_vars
\* C26 witness: a thread has just finished the modifying step of a store
\* that grew its tree to height 3, while the other thread is in the middle
\* of a call on the tree that still shares nodes with it.
NoSharedMutationWitness ==
    /\ ret.op = "step" /\ ret.res = "modify"
    /\ Live("A") /\ Live("B")
    /\ cur[ret.t].kind = "task" /\ cur[ret.t].pc = "done" /\ cur[ret.t].op = "store"
    /\ HeadHeight(ret.t) = 3
    /\ cur[Other(ret.t)].kind = "task" /\ cur[Other(ret.t)].pc \notin {"done", "ensure"}
    /\ \E n \in DOMAIN heap : heap[n].rc > 1

(***************************************************************************)
(* Write cursors that store, remove, mark and unmark on trees that share   *)
(* their nodes.                                                            *)
(***************************************************************************)
NextExcl ==
    \/ \E k \in CowKeys : XStore("A", k, 1)
    \/ XClone("A", "B")
    \/ XDrop("B")
    \/ \E t \in Trees, k \in CowKeys : NoBorrow /\ WCursorNew(t, k)
    \/ \E t \in Trees : WCursorStore(t, 2)
    \/ \E t \in Trees : WCursorRemove(t)
    \/ \E t \in Trees : WCursorSetMark(t, 0)
    \/ \E t \in Trees : WCursorUnsetMark(t, 0)
    \/ \E t \in Trees : CursorDrop(t)
SpecExcl == Init /\ [][NextExcl]_vars

\* The write cursor of tree t stands where a fresh cursor at its index
\* arrives, on a leaf, and the head node, its ancestors and the leaf have a
\* strong count of 1.
ExclusivePath(t) ==
    LET c == cur[t].c
        same(f) == f.at /\ f.node = c.node /\ f.off = c.off /\ f.anc = c.anc
    IN /\ is_node(xa[t].head)
       /\ node_strong_count(heap, xa[t].head) = 1
       /\ same(Cursor_new(heap, xa[t].head, c.index))
       /\ is_leaf(heap, c.node)
       /\ heap[c.node].rc = 1
       /\ \A i \in DOMAIN c.anc : heap[c.anc[i]].rc = 1

\* C27: whenever a write cursor is exclusive and positioned, every node from
\* the root of its tree to the leaf it stands on has strong count 1 and the
\* cursor stands on the leaf that covers its index; store, remove, set_mark
\* and unset_mark leave the index of the cursor as it was.
ExclusiveAfterCow ==
    /\ [](\A t \in Trees :
             (cur[t].kind = "mut" /\ cur[t].c.excl /\ is_arrived(cur[t].c))
                 => ExclusivePath(t))
    /\ [][ret'.op \in {"cursor_store", "cursor_remove", "set_mark", "unset_mark"}
              => cur'[ret'.t].c.index = cur[ret'.t].c.index]_vars
\* C27 witness: a cursor has just removed the item of a key in the second
\* leaf of a tree of height 2 that shared all its nodes with the other tree:
\* the cursor is exclusive and positioned, and the other tree still holds
\* the item.
ExclusiveAfterCowWitness ==
    /\ ret.op = "cursor_remove" /\ ret.res # NoItem
    /\ Live("A") /\ Live("B")
    /\ cur[ret.t].kind = "mut" /\ cur[ret.t].c.excl /\ is_arrived(cur[ret.t].c)
    /\ Len(cur[ret.t].c.anc) = 1
    /\ Load(ret.t, SLOT_SIZE) = NoItem
    /\ Load(Other(ret.t), SLOT_SIZE) # NoItem

(***************************************************************************)
(* as_node_mut_or_cow on the slots that the owner of a tree can reach      *)
(* exclusively: the head entry and, under a head node that is not shared,  *)
(* the slots of the head node.                                             *)
(***************************************************************************)
Holders(t) ==
    {HeadHolder} \cup
        (IF node_strong_count(heap, xa[t].head) = 1
         THEN {<<xa[t].head.val, o>> : o \in 0..1} ELSE {})

XAsNodeMutOrCow(t, h) ==
    /\ Free(t) /\ h \in Holders(t)
    /\ LET done(r) ==
               /\ IF h = HeadHolder
                  THEN Install(r.H, [xa EXCEPT ![t].head = r.e], cur)
                  ELSE Install(set_entry(r.H, h[1], h[2], r.e), xa, cur)
               /\ ret' = Ret("as_node_mut_or_cow", t, 0, 0,
                             IF ~r.some THEN "None"
                             ELSE IF r.e = EntryAt(t, h) THEN "InPlace" ELSE "Copied")
       IN done(as_node_mut_or_cow(heap, EntryAt(t, h)))
    /\ UNCHANGED amap

NextMutCow ==
    \/ \E k \in CowKeys : XStore("A", k, 1)
    \/ \E k \in CowKeys : XStoreWithMark("A", k, 2, 0)
    \/ XRemove("A", SLOT_SIZE)
    \/ XClone("A", "B")
    \/ XDrop("B")
    \/ \E t \in Trees : XAsNodeMutOrCow(t, HeadHolder)
    \/ \E t \in Trees, o \in 0..1 : XAsNodeMutOrCow(t, <<xa[t].head.val, o>>)
SpecMutCow == Init /\ [][NextMutCow]_vars

\* What as_node_mut_or_cow makes, as r, of the slot that holds e in heap H.
CowOutcome(H, e, r) ==
    IF ~is_node(e) THEN ~r.some /\ r.H = H /\ r.e = e
    ELSE IF H[e.val].rc = 1 THEN r.some /\ r.H = H /\ r.e = e
    ELSE /\ r.some /\ is_node(r.e)
         /\ r.e.val \notin DOMAIN H
         /\ DOMAIN r.H = DOMAIN H \cup {r.e.val}
         /\ r.H[r.e.val].rc = 1
         /\ r.H[r.e.val].height = H[e.val].height
         /\ r.H[r.e.val].offset_in_parent = H[e.val].offset_in_parent
         /\ r.H[r.e.val].marks = H[e.val].marks
         /\ r.H[r.e.val].slots = H[e.val].slots
         /\ r.H[e.val] = [H[e.val] EXCEPT !.rc = @ - 1]
         /\ \A n \in DOMAIN H \ {e.val} :
               r.H[n] = IF n \in ChildIds(H, e.val)
                        THEN [H[n] EXCEPT !.rc = @ + 1] ELSE H[n]

\* C28: as_node_mut_or_cow on a slot that holds a node with strong count
\* above 1 puts in the slot a new node with strong count 1 and the height,
\* offset_in_parent, mark words and slots of the original, raises the
\* strong count of each child by one and lowers that of the original by one
\* without changing its contents; on a node with strong count 1 it returns
\* the node and changes nothing; on an Empty or Item slot it returns None.
MutOrCow ==
    \A t \in Trees : \A h \in Holders(t) :
        Free(t) => CowOutcome(heap, EntryAt(t, h), as_node_mut_or_cow(heap, EntryAt(t, h)))
\* C28 witness: as_node_mut_or_cow has just copied the shared second leaf
\* of a tree of height 2 whose head was already private: the other tree
\* still holds the original leaf, and the key in that leaf is marked.
MutOrCowWitness ==
    /\ ret.op = "as_node_mut_or_cow" /\ ret.res = "Copied"
    /\ Live("A") /\ Live("B")
    /\ HeadHeight(ret.t) = 2
    /\ node_strong_count(heap, xa[ret.t].head) = 1
    /\ node_strong_count(heap, Slot(heap, xa[ret.t].head.val, 1)) = 1
    /\ node_strong_count(heap, Slot(heap, xa[Other(ret.t)].head.val, 1)) = 1
    /\ node_strong_count(heap, Slot(heap, xa[ret.t].head.val, 0)) = 2
    /\ IsMarked(ret.t, SLOT_SIZE, 0)

(***************************************************************************)
(* One tree, stores and removes at the first and the last key of a height. *)
(***************************************************************************)
EdgeKeys == {0, SLOT_SIZE, SLOT_SIZE * SLOT_SIZE - 1}
NextEdge ==
    \/ \E k \in EdgeKeys, item \in Items : XStore("A", k, item)
    \/ \E k \in EdgeKeys : XRemove("A", k)
SpecEdge == Init /\ [][NextEdge]_vars

\* The least height h with SLOT_SIZE^h > k.
LeastHeight(k) ==
    CHOOSE h \in 1..4 : SLOT_SIZE ^ h > k /\ \A g \in 1..(h - 1) : SLOT_SIZE ^ g <= k

\* C29: a store at key k on an empty tree makes a head of the least height h
\* with 64^h > k; on a tree that is not empty, a store at a key up to the
\* largest key that the head covers (that key included) leaves the height
\* of the head as it is, and a store at a larger key leaves the least
\* height h with 64^h > k.
GrowthMinimal ==
    \A k \in EdgeKeys \cup {SLOT_SIZE * SLOT_SIZE} :
        LET grown(r) ==
                IF is_null(xa["A"].head) THEN r.H[r.head.val].height = LeastHeight(k)
                ELSE IF k <= xa_max_index(heap, xa["A"].head)
                     THEN r.H[r.head.val].height = HeadHeight("A")
                ELSE r.H[r.head.val].height = LeastHeight(k)
        IN grown(XArray_store(heap, xa["A"].head, k, 1))

\* The node reached from node n through slot 0, d times.
RECURSIVE DownSlotZero(_, _, _)
DownSlotZero(H, n, d) ==
    IF d = 0 THEN n ELSE DownSlotZero(H, Slot(H, n, 0).val, d - 1)

\* C30: when a store at key k makes the head of a tree higher, every other
\* key loads the item and has the is_marked results it had before, the old
\* head node is reached from the new head through slot 0 of each new head,
\* and for each mark m every new head has bit 0 of marks[m] set exactly if
\* marks[m] of the old head is not all clear (and no other bit).
GrowthKeepsContents ==
    (Free("A") /\ is_node(xa["A"].head)) =>
        \A k \in {SLOT_SIZE, SLOT_SIZE * SLOT_SIZE - 1, SLOT_SIZE * SLOT_SIZE} :
            LET old == xa["A"].head.val
                kept(r, d) ==
                    d > 0 =>
                        /\ \A j \in DeepObs \ {k} :
                              /\ XArray_load(r.H, r.head, j) = Load("A", j)
                              /\ \A m \in Marks :
                                    XArray_is_marked_at(r.H, r.head, j, m)
                                        = IsMarked("A", j, m)
                        /\ DownSlotZero(r.H, r.head.val, d) = old
                        /\ r.H[old].marks = heap[old].marks
                        /\ \A i \in 0..(d - 1) : \A m \in Marks : \A o \in 0..(SLOT_SIZE - 1) :
                              node_is_marked(r.H, DownSlotZero(r.H, r.head.val, i), o, m)
                                  <=> (o = 0 /\ ~node_is_mark_clear(heap, old, m))
                grown(r) == kept(r, r.H[r.head.val].height - heap[old].height)
            IN grown(XArray_store(heap, xa["A"].head, k, 1))
\* C30 witness: a store at the first key of height 3 has just grown a tree
\* of height 1 whose key 0 holds an item with mark 0 and not mark 1: the two
\* new heads carry bit 0 of mark 0 only, and the old leaf is two levels
\* below the head.
GrowthKeepsContentsWitness ==
    /\ ret.op = "store" /\ ret.res = NoItem
    /\ Free("A") /\ HeadHeight("A") = 3
    /\ Load("A", 0) # NoItem /\ Load("A", SLOT_SIZE) = NoItem
    /\ Load("A", SLOT_SIZE * SLOT_SIZE) # NoItem
    /\ IsMarked("A", 0, 0) /\ ~IsMarked("A", 0, 1)
    /\ is_leaf(heap, DownSlotZero(heap, xa["A"].head.val, 2))
    /\ DOMAIN heap[DownSlotZero(heap, xa["A"].head.val, 1)].slots = {0}
    /\ node_is_marked(heap, xa["A"].head.val, 0, 0)
    /\ ~node_is_marked(heap, xa["A"].head.val, 0, 1)

(***************************************************************************)
(* Keys up to the largest u64, on one tree that shares no node.  A u64 is  *)
(* the set of the positions of its 1 bits, so that the shifts and the      *)
(* subtraction of max_index are those of the machine.                      *)
(***************************************************************************)
MAX_HEIGHT == 64 \div BITS_PER_LAYER + 1
U64Bits == 0..63
Max(S) == CHOOSE x \in S : \A y \in S : x >= y
\* v << s for s < 64: the bits shifted out are lost.
u64_shl(v, s) == {b + s : b \in v} \cap U64Bits
\* v - 1, wrapping around at 0.
u64_sub_one(v) ==
    IF v = {} THEN U64Bits
    ELSE LET from(low) == (v \ {low}) \cup (0..(low - 1)) IN from(Min(v))
u64_gt(a, b) == a # b /\ Max((a \ b) \cup (b \ a)) \in a
\* (v >> s) & SLOT_MASK
u64_offset(v, s) ==
    LET bit(b) == IF (b + s) \in v THEN 2 ^ b ELSE 0
    IN bit(0) + bit(1) + bit(2) + bit(3) + bit(4) + bit(5)

\* max_index of a height: ((SLOT_SIZE as u64) << shift) - 1.  With overflow
\* checks a shift of 64 or more and the subtraction from 0 panic (trap);
\* without them the shift count is taken modulo 64 and the subtraction
\* wraps around.
Height_max_index(height, overflow_checks) ==
    LET minus(v) == [trap |-> overflow_checks /\ v = {}, val |-> u64_sub_one(v)]
    IN IF layer_shift(height) >= 64 /\ overflow_checks THEN [trap |-> TRUE, val |-> {}]
       ELSE minus(u64_shl({BITS_PER_LAYER}, layer_shift(height) % 64))

\* The descent of traverse_to_target from node n.
RECURSIVE Wide_descend(_, _, _)
Wide_descend(H, n, key) ==
    LET at(off) ==
            IF is_leaf(H, n) THEN [trap |-> FALSE, at |-> TRUE, node |-> n, off |-> off]
            ELSE IF ~is_node(Slot(H, n, off))
                 THEN [trap |-> FALSE, at |-> FALSE, node |-> 0, off |-> 0]
            ELSE Wide_descend(H, Slot(H, n, off).val, key)
    IN at(u64_offset(key, layer_shift(H[n].height)))

\* traverse_to_target of a new cursor on key.
Wide_traverse(H, head, key, overflow_checks) ==
    IF ~is_node(head) THEN [trap |-> FALSE, at |-> FALSE, node |-> 0, off |-> 0]
    ELSE LET within(m) ==
                 IF m.trap THEN [trap |-> TRUE, at |-> FALSE, node |-> 0, off |-> 0]
                 ELSE IF u64_gt(key, m.val) \/ m.val = {}
                      THEN [trap |-> FALSE, at |-> FALSE, node |-> 0, off |-> 0]
                 ELSE Wide_descend(H, head.val, key)
         IN within(Height_max_index(H[head.val].height, overflow_checks))

\* expand_height on an empty XArray: the loop that looks for the height.
RECURSIVE Wide_fit(_, _, _)
Wide_fit(h, key, overflow_checks) ==
    LET on(m) == IF m.trap THEN [trap |-> TRUE, height |-> h]
                 ELSE IF u64_gt(key, m.val) THEN Wide_fit(h + 1, key, overflow_checks)
                 ELSE [trap |-> FALSE, height |-> h]
    IN on(Height_max_index(h, overflow_checks))

\* expand_height on an XArray that is not empty.  The loop is followed up
\* to a head of height MAX_HEIGHT + 1: a call that asks for more never
\* returns (out is "Diverges").
RECURSIVE Wide_expand_loop(_, _, _, _)
Wide_expand_loop(H, head, key, overflow_checks) ==
    LET on_top(a, marked) ==
            Wide_expand_loop(
                set_entry([a.H EXCEPT ![a.e.val].marks =
                               [m \in Marks |-> IF m \in marked THEN Mark_set(@[m], 0)
                                                ELSE @[m]]],
                          a.e.val, 0, head),
                a.e, key, overflow_checks)
        test(m) ==
            IF m.trap THEN [out |-> "Panics", H |-> H, head |-> head]
            ELSE IF u64_gt(m.val, key) THEN [out |-> "Ok", H |-> H, head |-> head]
            ELSE IF H[head.val].height > MAX_HEIGHT
                 THEN [out |-> "Diverges", H |-> H, head |-> head]
            ELSE on_top(alloc_node(H, H[head.val].height + 1, 0),
                        {m2 \in Marks : ~node_is_mark_clear(H, head.val, m2)})
    IN test(Height_max_index(H[head.val].height, overflow_checks))

\* The descent of expand_and_traverse_to_target from node n: an empty slot
\* on the way gets a new node.
RECURSIVE Wide_expand_descend(_, _, _)
Wide_expand_descend(H, n, key) ==
    LET fill(off, a) == Wide_expand_descend(set_entry(a.H, n, off, a.e), a.e.val, key)
        at(off) ==
            IF is_leaf(H, n) THEN [H |-> H, node |-> n, off |-> off]
            ELSE IF is_node(Slot(H, n, off))
                 THEN Wide_expand_descend(H, Slot(H, n, off).val, key)
            ELSE fill(off, alloc_node(H, H[n].height - 1, off))
    IN at(u64_offset(key, layer_shift(H[n].height)))

\* XArray::store(key, item): cursor_mut(key).store(item).
Wide_store(H, head, key, item, overflow_checks) ==
    LET put(H1, head1, node, off) ==
            [out |-> "Ok", H |-> set_entry(H1, node, off, from_item(item)),
             head |-> head1, ret |-> into_item(Slot(H1, node, off))]
        down(head1, d) == put(d.H, head1, d.node, d.off)
        new_head(a) == down(a.e, Wide_expand_descend(a.H, a.e.val, key))
        fitted(f) ==
            IF f.trap THEN [out |-> "Panics", H |-> H, head |-> head, ret |-> NoItem]
            ELSE new_head(alloc_node(H, f.height, 0))
        grown(g) ==
            IF g.out # "Ok" THEN g @@ [ret |-> NoItem]
            ELSE down(g.head, Wide_expand_descend(g.H, g.head.val, key))
        from(c) ==
            IF c.trap THEN [out |-> "Panics", H |-> H, head |-> head, ret |-> NoItem]
            ELSE IF c.at THEN put(H, head, c.node, c.off)
            ELSE IF is_null(head) THEN fitted(Wide_fit(1, key, overflow_checks))
            ELSE grown(Wide_expand_loop(H, head, key, overflow_checks))
    IN from(Wide_traverse(H, head, key, overflow_checks))

\* XArray::load(key).
Wide_load(H, head, key, overflow_checks) ==
    LET from(c) == [trap |-> c.trap,
                    item |-> IF c.at THEN into_item(Slot(H, c.node, c.off)) ELSE NoItem]
    IN from(Wide_traverse(H, head, key, overflow_checks))

\* 0, 2^60 - 1, 2^60 and 2^64 - 1.
WideKeys == {{}, 0..59, {60}, U64Bits}

\* A store that panics leaves the tree as the unwinding finds it; a store
\* that never returns leaves nothing to look at, the tree is kept as it was.
WideStore(k, item, overflow_checks) ==
    /\ Free("A")
    /\ LET done(r) ==
               /\ IF r.out = "Diverges" THEN UNCHANGED <<heap, xa, cur>>
                  ELSE Install(r.H, [xa EXCEPT !["A"].head = r.head], cur)
               /\ ret' = Ret("wide_store", "A", 0, item, r.out)
       IN done(Wide_store(heap, xa["A"].head, k, item, overflow_checks))
    /\ UNCHANGED amap

NextWide ==
    \E k \in WideKeys, item \in Items, overflow_checks \in BOOLEAN :
        WideStore(k, item, overflow_checks)
SpecWide == Init /\ [][NextWide]_vars

\* C31: in every state and for every key up to 2^64 - 1, store(k, v)
\* completes with a head of height at most MAX_HEIGHT and load(k) then
\* returns v, whether the build checks overflows or not; and max_index of
\* the height of the head is computed without overflow or underflow.
WideKeysUsable ==
    /\ \A k \in WideKeys : \A overflow_checks \in BOOLEAN :
          LET loaded(l) == ~l.trap /\ l.item = 1
              stored(r) ==
                  /\ r.out = "Ok"
                  /\ r.H[r.head.val].height <= MAX_HEIGHT
                  /\ loaded(Wide_load(r.H, r.head, k, overflow_checks))
          IN stored(Wide_store(heap, xa["A"].head, k, 1, overflow_checks))
    /\ is_node(xa["A"].head) => ~Height_max_index(HeadHeight("A"), TRUE).trap

\* The nodes from node n down to the leaf that holds key index, or << >> if
\* a slot on the way holds no node.
RECURSIVE WalkDown(_, _, _)
WalkDown(H, n, index) ==
    IF H[n].height = 1 THEN <<n>>
    ELSE LET below(p) == IF p = << >> THEN << >> ELSE <<n>> \o p
             via(e) == IF is_node(e) THEN below(WalkDown(H, e.val, index)) ELSE << >>
         IN via(Slot(H, n, (index \div (SLOT_SIZE ^ (H[n].height - 1))) % SLOT_SIZE))
\* The same from the head of a tree; << >> also if the tree is empty or its
\* head does not cover the key.
KeyPath(H, head, index) ==
    IF ~is_node(head) THEN << >>
    ELSE IF index > SLOT_SIZE ^ H[head.val].height - 1 THEN << >>
    ELSE WalkDown(H, head.val, index)

\* C32: between the calls, a cursor (read or write) is either Inactive with
\* no ancestors, or positioned on the leaf of its key with operation_offset
\* equal to index & 63 and with the nodes from the head down to the parent
\* of the leaf as its ancestors (as many as the height of the head minus
\* one); it is Inactive whenever the head is Empty, the key is beyond the
\* head or a slot on the path of the key holds no node.
CursorPosition ==
    \A t \in Trees :
        cur[t].kind \in {"read", "mut"} =>
            LET c == cur[t].c
                on(path) ==
                    /\ ~c.at => c.anc = << >>
                    /\ path = << >> => ~c.at
                    /\ c.at => /\ path # << >>
                               /\ c.node = Last(path)
                               /\ is_leaf(heap, c.node)
                               /\ c.off = c.index % SLOT_SIZE
                               /\ c.anc = Front(path)
                               /\ Len(c.anc) = HeadHeight(t) - 1
            IN on(KeyPath(heap, xa[t].head, c.index))
\* C32 witness: next() has just taken a read cursor from the last key of
\* the first leaf of a tree of height 2 to the first key of the second
\* leaf, which the tree does not have: the cursor is Inactive.
CursorPositionWitness ==
    /\ ret.op = "next" /\ cur["A"].kind = "read"
    /\ HeadHeight("A") = 2 /\ Load("A", 0) # NoItem
    /\ cur["A"].c.index = SLOT_SIZE /\ ~cur["A"].c.at

\* C33: set_mark and unset_mark of a write cursor change the mark words of
\* the leaf only: when they return, the mark words of every interior node
\* are as they were before the call (the ancestors are brought up to date
\* later, when the cursor leaves its position).
DeferredPropagation ==
    [][ret'.op \in {"set_mark", "unset_mark"}
          => \A n \in DOMAIN heap \cap DOMAIN heap' :
                 heap[n].height > 1 => heap'[n].marks = heap[n].marks]_vars

\* C34: creating a write cursor, next() and reset_to() leave every node as
\* it is (none is allocated or copied, no strong count, slot or mark word
\* changes) and leave the head of the tree in place, and so do load() and
\* is_marked() on the cursor, which only read the slot it stands on; this
\* on trees that share nodes with another tree.
LazyCow ==
    /\ [](\A t \in Trees :
             cur[t].kind = "mut" => CursorMut_ref_operated_entry(CtxOf(t)).H = heap)
    /\ [][ret'.op \in {"cursor_mut", "next", "reset_to"}
              => heap' = heap /\ xa' = xa]_vars
\* C34 witness: a write cursor has just been created on a key of a tree of
\* height 2 whose head is shared with the other tree; it stands on the
\* leaf of the key and is not exclusive.
LazyCowWitness ==
    /\ ret.op = "cursor_mut"
    /\ Live("A") /\ Live("B")
    /\ HeadHeight(ret.t) = 2
    /\ node_strong_count(heap, xa[ret.t].head) = 2
    /\ cur[ret.t].kind = "mut" /\ cur[ret.t].c.at /\ ~cur[ret.t].c.excl
    /\ Load(ret.t, cur[ret.t].c.index) # NoItem

\* C35: no call on a tree lowers the height of its head or takes its head
\* node away, and remove and unset_mark free no node, also when they take
\* the last item of a leaf or of the tree.
NeverShrinks ==
    [][/\ HeadHeight("A")' >= HeadHeight("A")
       /\ ret'.op \in {"remove", "unset_mark"}
              => Cardinality(DOMAIN heap') >= Cardinality(DOMAIN heap)]_vars
\* C35 witness: a remove has just taken the last item of a tree of height
\* 3: no key holds an item, and the head and the nodes below it are still
\* there.
NeverShrinksWitness ==
    /\ ret.op = "remove" /\ ret.res # NoItem
    /\ HeadHeight("A") = 3
    /\ \A k \in DeepObs : Load("A", k) = NoItem
    /\ Cardinality(DOMAIN heap) >= 5

\* The nodes below the nodes of S, down to d levels.
RECURSIVE Below(_, _, _)
Below(H, S, d) ==
    IF d = 0 \/ S = {} THEN {}
    ELSE LET under(kids) == kids \cup Below(H, kids, d - 1)
         IN under(UNION {ChildIds(H, n) \cap DOMAIN H : n \in S})

\* C36: in every state between the calls, the strong count of each node is
\* the number of slots and tree heads that refer to it (and is not zero),
\* every node that a slot or a head refers to exists, no node is below
\* itself, and within each tree every node is referred to exactly once (the
\* head node by the tree, any other node by one slot of the tree), so that
\* one path leads to it from the head.
RefCountAccurate ==
    /\ \A s \in HeapSlots :
          is_node(heap[s[1]].slots[s[2]]) => heap[s[1]].slots[s[2]].val \in DOMAIN heap
    /\ \A t \in Trees : is_node(xa[t].head) => xa[t].head.val \in DOMAIN heap
    /\ \A n \in DOMAIN heap :
          /\ heap[n].rc >= 1
          /\ heap[n].rc =
                Cardinality({s \in HeapSlots : heap[s[1]].slots[s[2]] = node_entry(n)})
                + Cardinality({t \in Trees : xa[t].head = node_entry(n)})
          /\ n \notin Below(heap, {n}, Cardinality(DOMAIN heap))
    /\ \A t \in Trees :
          LET within(R) ==
                  \A n \in R :
                      Cardinality({s \in HeapSlots :
                                      s[1] \in R /\ heap[s[1]].slots[s[2]] = node_entry(n)})
                      = IF xa[t].head = node_entry(n) THEN 0 ELSE 1
          IN within(ReachableNodes(heap, xa[t].head))
\* C36 witness: a store through a write cursor has just given its tree a
\* head and a leaf of its own, while the other leaf is still held by both
\* trees.
RefCountAccurateWitness ==
    /\ ret.op = "cursor_store"
    /\ Live("A") /\ Live("B")
    /\ HeadHeight("A") = 2 /\ HeadHeight("B") = 2
    /\ xa["A"].head # xa["B"].head
    /\ Cardinality({n \in DOMAIN heap : heap[n].rc = 2}) = 1
    /\ Cardinality(DOMAIN heap) = 5

\* C37: a store, through a write cursor, of the item that the key of the
\* cursor already holds returns that item (the reference that was provided
\* goes back to the caller) and leaves the slot holding the item: every key
\* of every tree loads what it loaded before, and on a tree that shares no
\* node neither the heap nor the head changes at all.
SameItemStore ==
    \A t \in Trees : \A item \in Items :
        (cur[t].kind = "mut" /\ Load(t, cur[t].c.index) = item) =>
            LET same(r) ==
                    /\ r.ret = item
                    /\ r.c.at
                    /\ Slot(r.H, r.c.node, r.c.off) = from_item(item)
                    /\ XArray_load(r.H, r.head, cur[t].c.index) = item
                    /\ ItemView(r.H, r.head) = ItemView(heap, xa[t].head)
                    /\ Live(Other(t)) =>
                          ItemView(r.H, xa[Other(t)].head) = ItemView(heap, xa[Other(t)].head)
                    /\ (\A n \in DOMAIN heap : heap[n].rc = 1) =>
                          r.H = heap /\ r.head = xa[t].head
            IN same(CursorMut_store(CtxOf(t), item))
\* C37 witness: a write cursor has just stored, on a tree of height 2 that
\* shares its nodes with the other tree, the item that its key held: the
\* call returned the item and the key still loads it, in both trees.
SameItemStoreWitness ==
    /\ ret.op = "cursor_store" /\ ret.res # NoItem
    /\ Live("A") /\ Live("B")
    /\ cur[ret.t].kind = "mut"
    /\ HeadHeight(ret.t) = 2
    /\ ret.res = Load(ret.t, cur[ret.t].c.index)
    /\ ret.res = Load(Other(ret.t), cur[ret.t].c.index)

(***************************************************************************)
(* Termination of the traversals: unset_mark_all and the range iterator,   *)
(* one iteration of their loops per step.                                  *)
(***************************************************************************)
\* Mutant of Range_next_loop: an empty position is loaded again without
\* advancing the cursor.
Range_next_loop_stuck(H, head, c, end) ==
    IF c.index >= end THEN [c |-> c, out |-> "none", item |-> NoItem, adv |-> 0]
    ELSE IF Cursor_load(H, c) = NoItem
         THEN [c |-> c, out |-> "loop", item |-> NoItem, adv |-> 0]
         ELSE [c |-> Cursor_next(H, head, c), out |-> "some", item |-> Cursor_load(H, c),
               adv |-> 1]

\* One iteration of the loop of Range::next: out is "none" when the call
\* returns None, "some" when it returns the item, "loop" when it continues;
\* adv counts the calls of cursor.next().
Range_next_loop(H, head, c, end) ==
    IF c.index >= end THEN [c |-> c, out |-> "none", item |-> NoItem, adv |-> 0]
    ELSE IF Cursor_load(H, c) = NoItem
         THEN [c |-> Cursor_next(H, head, c), out |-> "loop", item |-> NoItem, adv |-> 1]
         ELSE [c |-> Cursor_next(H, head, c), out |-> "some", item |-> Cursor_load(H, c),
               adv |-> 1]

\* The ranges that are iterated: empty ones, ranges across the boundary of
\* the first leaf, and one whose end is below its start.
RangeBounds ==
    {<<SLOT_SIZE - 2, SLOT_SIZE - 2 + n>> : n \in 0..(MaxNext + 1)}
        \cup {<<SLOT_SIZE, 0>>}

\* xa.range(start..end)
RangeNew(t, start, end) ==
    /\ Free(t)
    /\ cur' = [cur EXCEPT ![t] = [kind |-> "range", c |-> Cursor_new(heap, xa[t].head, start),
                                  start |-> start, end |-> end, out |-> "new",
                                  item |-> NoItem, adv |-> 0, nones |-> 0]]
    /\ ret' = Ret("range", t, start, end, "new")
    /\ UNCHANGED <<heap, xa, amap>>

\* One iteration of Range::next; the caller may call next() again after a
\* None, MaxNext more times.  The call reports how the iteration ended, the
\* item it yields is kept with the iterator.
RangeStep(t) ==
    /\ Live(t) /\ cur[t].kind = "range"
    /\ cur[t].out = "none" => cur[t].nones <= MaxNext
    /\ LET step(r) ==
               /\ cur' = [cur EXCEPT ![t].c = r.c, ![t].out = r.out, ![t].item = r.item,
                                     ![t].adv = @ + r.adv,
                                     ![t].nones = IF r.out = "none" THEN @ + 1 ELSE @]
               /\ ret' = Ret("range_next", t, cur[t].c.index, 0, r.out)
       IN step(Range_next_loop(heap, xa[t].head, cur[t].c, cur[t].end))
    /\ UNCHANGED <<heap, xa, amap>>

\* The XArray after store_with_mark(k, 1, Mark0) for the keys k of S in
\* ascending order.
RECURSIVE Marked(_, _, _)
Marked(H, head, S) ==
    IF S = {} THEN [H |-> H, head |-> head]
    ELSE LET more(r) == Marked(r.H, r.head, S \ {Min(S)})
         IN more(XArray_store_with_mark(H, head, Min(S), 1, 0))

\* The traversals start on an XArray "A" that is empty or has marked items
\* in its first leaf or in its first two leaves, and on its clone "B", which
\* shares every node with it.
TermTrees == {{}, {SLOT_SIZE - 1}, {SLOT_SIZE - 1, SLOT_SIZE}}
InitTerm ==
    \E S \in TermTrees :
        LET built(r) ==
                /\ heap = XArray_clone_heap(r.H, r.head)
                /\ xa = [t \in Trees |-> [DeadTree EXCEPT !.live = TRUE, !.head = r.head]]
                /\ amap = [t \in Trees |->
                              [k \in AllKeys |-> IF k \in S THEN 1 ELSE NoItem]]
        IN /\ built(Marked([x \in {} |-> XNode_new(1, 0)], EMPTY, S))
           /\ cur = [t \in Trees |-> NoCursor]
           /\ ret = [NoRet EXCEPT !.res = "none"]

NextTerm ==
    \/ \E t \in Trees : TaskBegin(t, "unset_mark_all", 0, 0)
    \/ \E t \in Trees : TaskStep(t)
    \/ \E b \in RangeBounds : RangeNew("A", b[1], b[2])
    \/ RangeStep("A")
\* The thread that runs unset_mark_all is scheduled again and again, and the
\* caller of the iterator calls next() until it sees None.
SpecTerm ==
    /\ InitTerm /\ [][NextTerm]_vars
    /\ \A t \in Trees : WF_vars(TaskStep(t))
    /\ WF_vars(RangeStep("A"))

InUnsetMarkAll(t) == cur[t].kind = "task" /\ cur[t].op = "unset_mark_all"
NoDuplicates(s) == \A i, j \in 1..Len(s) : s[i] = s[j] => i = j

\* C38: the traversals terminate.  Every call of unset_mark_all returns, and
\* no node is taken from its handle_list twice: the nodes it has visited and
\* the nodes that wait in the handle_list are pairwise distinct.  A range
\* iterator over start..end has advanced its cursor index - start times, at
\* most end - start times (none when end <= start), so the index never
\* passes end; it returns None eventually, and once it has returned None
\* every further call has returned None too, with the cursor at end (at
\* start when end <= start).
TraversalsTerminate ==
    /\ [](\A t \in Trees :
            /\ InUnsetMarkAll(t) => NoDuplicates(cur[t].seen \o cur[t].kept)
            /\ cur[t].kind = "range" =>
                  /\ cur[t].c.index = cur[t].start + cur[t].adv
                  /\ cur[t].adv <= IF cur[t].end > cur[t].start
                                    THEN cur[t].end - cur[t].start ELSE 0
                  /\ cur[t].nones > 0 =>
                        /\ cur[t].out = "none"
                        /\ cur[t].c.index = Max({cur[t].start, cur[t].end}))
    /\ \A t \in Trees : InUnsetMarkAll(t) ~> (InUnsetMarkAll(t) /\ cur[t].pc = "done")
    /\ \A t \in Trees : (cur[t].kind = "range") ~> (cur[t].kind = "range" /\ cur[t].out = "none")
\* C38 witness: a range over SLOT_SIZE - 2 .. SLOT_SIZE + 1, across the end
\* of the first leaf, has returned None a second time after three advances
\* of its cursor, one of which yielded an item, while the unset_mark_all of
\* the other tree, which shares nodes with this one, is visiting its third
\* node.
TraversalsTerminateWitness ==
    /\ ret.op = "range_next"
    /\ cur[ret.t].kind = "range" /\ cur[ret.t].out = "none" /\ cur[ret.t].nones = 2
    /\ cur[ret.t].start = SLOT_SIZE - 2 /\ cur[ret.t].adv = 3
    /\ Load(ret.t, SLOT_SIZE - 1) # NoItem
    /\ InUnsetMarkAll(Other(ret.t)) /\ Len(cur[Other(ret.t)].seen) = 2
    /\ cur[Other(ret.t)].kept # << >>

(***************************************************************************)
(* One mark word by itself: Mark::new(inner) and the calls of its methods. *)
(* The word is carried by ret, with the result of the last call.           *)
(***************************************************************************)
MarkOffsets == {0, 1, SLOT_SIZE - 2, SLOT_SIZE - 1}
WordRet(op, res, inner) == [op |-> op, t |-> "A", res |-> res, inner |-> inner]

InitWord ==
    /\ heap = [x \in {} |-> XNode_new(1, 0)]
    /\ xa = [t \in Trees |-> DeadTree]
    /\ cur = [t \in Trees |-> NoCursor]
    /\ amap = [t \in Trees |-> EmptyMap]
    /\ \E inner \in {{}, {SLOT_SIZE - 1}, 0..(SLOT_SIZE - 1)} :
          ret = WordRet("new", FALSE, inner)

WordUpdate(offset, set) ==
    /\ LET done(r) == ret' = WordRet("update", r.changed, r.inner)
       IN done(Mark_update(ret.inner, offset, set))
    /\ UNCHANGED <<heap, xa, cur, amap>>
WordSet(offset) ==
    /\ ret' = WordRet("set", FALSE, Mark_set(ret.inner, offset))
    /\ UNCHANGED <<heap, xa, cur, amap>>
WordUnset(offset) ==
    /\ ret' = WordRet("unset", FALSE, Mark_unset(ret.inner, offset))
    /\ UNCHANGED <<heap, xa, cur, amap>>
WordClear ==
    /\ ret' = WordRet("clear", FALSE, Mark_clear(ret.inner))
    /\ UNCHANGED <<heap, xa, cur, amap>>
WordIsMarked(offset) ==
    /\ ret' = WordRet("is_marked", Mark_is_marked(ret.inner, offset), ret.inner)
    /\ UNCHANGED <<heap, xa, cur, amap>>
WordIsClear ==
    /\ ret' = WordRet("is_clear", Mark_is_clear(ret.inner), ret.inner)
    /\ UNCHANGED <<heap, xa, cur, amap>>

NextWord ==
    \/ \E o \in MarkOffsets, set \in BOOLEAN : WordUpdate(o, set)
    \/ \E o \in MarkOffsets : WordSet(o)
    \/ \E o \in MarkOffsets : WordUnset(o)
    \/ WordClear
    \/ \E o \in MarkOffsets : WordIsMarked(o)
    \/ WordIsClear
SpecWord == InitWord /\ [][NextWord]_vars

\* C39: on every mark word that is reached and for every offset o below 64:
\* update(o, want) leaves bit o equal to want and every other bit as it was,
\* and returns true exactly when bit o differed from want, so the same
\* update again returns false; set(o) and unset(o) leave the word that
\* update(o, true) and update(o, false) leave, and is_marked(o) reads the
\* bit they wrote; is_clear() holds exactly when is_marked is false at all 64
\* offsets; after clear() it is false at all 64 offsets.
MarkWordOps ==
    LET w == ret.inner
        bits == 0..(SLOT_SIZE - 1)
    IN /\ \A o \in bits, want \in BOOLEAN :
             LET r == Mark_update(w, o, want)
             IN /\ Mark_is_marked(r.inner, o) = want
                /\ \A p \in bits \ {o} : Mark_is_marked(r.inner, p) = Mark_is_marked(w, p)
                /\ r.changed = (Mark_is_marked(w, o) # want)
                /\ ~Mark_update(r.inner, o, want).changed
       /\ \A o \in bits :
             /\ Mark_set(w, o) = Mark_update(w, o, TRUE).inner
             /\ Mark_unset(w, o) = Mark_update(w, o, FALSE).inner
             /\ Mark_is_marked(Mark_set(w, o), o)
             /\ ~Mark_is_marked(Mark_unset(w, o), o)
             /\ ~Mark_is_marked(Mark_clear(w), o)
       /\ Mark_is_clear(w) = (\A o \in bits : ~Mark_is_marked(w, o))
       /\ Mark_is_clear(Mark_clear(w))
\* C39 witness: update(o, false) has just cleared a bit of a word that had
\* all 64 bits set and has lost another bit before: it returned true and
\* the word still has bits set.
MarkWordOpsWitness ==
    /\ ret.op = "update" /\ ret.res
    /\ Cardinality(ret.inner) = SLOT_SIZE - 2
    /\ ~Mark_is_marked(ret.inner, SLOT_SIZE - 1)
    /\ ~Mark_is_clear(ret.inner)

\* C40: while a write cursor stays on its position in a subtree, below the
\* ancestors it entered it through, no call of the cursor writes one of
\* these ancestors: in a step that leaves the cursor on the same node under
\* the same ancestors (in a tree that shares no node, so nothing is
\* copied), every ancestor keeps its slots and its mark words.
AncestorsDormant ==
    [][\A t \in Trees :
          (/\ cur[t].kind = "mut" /\ cur'[t].kind = "mut"
           /\ cur[t].c.at /\ cur'[t].c.at
           /\ cur'[t].c.node = cur[t].c.node /\ cur'[t].c.anc = cur[t].c.anc
           /\ DOMAIN heap' = DOMAIN heap
           /\ \A n \in DOMAIN heap : heap[n].rc = 1)
              => \A i \in 1..Len(cur[t].c.anc) :
                     heap'[cur[t].c.anc[i]] = heap[cur[t].c.anc[i]]]_vars

====
